---- MODULE Spec2Model ----
(***************************************************************************)
(* Verification model of the PokemonRomPlayer decision core.               *)
(*                                                                         *)
(*   Spec          the dependency-graph task scheduler                     *)
(*                 (src/src/crew/crew_manager.py, class CrewManager)       *)
(*   SpecArbiter   the agent arbiter tick                                  *)
(*                 (src/src/agents/crew_manager.py, class CrewManager)     *)
(*   SpecDetector  the state-change check called directly, as the unit     *)
(*                 test does (CrewManager._state_changed)                  *)
(*   SpecPathfinder  the grid search                                       *)
(*                 (src/src/ai/pathfinding.py, class PathFinder)           *)
(*   SpecSearch    the grid search followed one pass of its loop at a time *)
(*                 (src/src/ai/pathfinding.py, PathFinder.find_path)       *)
(*   SpecQueues    the target and request queues                           *)
(*                 (src/src/crew/agents/crew_navigation_agent.py,          *)
(*                  src/src/crew/agents/crew_menu_agent.py)                *)
(*   SpecCommands  the command queue                                       *)
(*                 (src/src/utils/command_queue.py, class CommandQueue)    *)
(*   SpecBattle    the battle decision                                     *)
(*                 (src/src/ai/battle_agent.py, BattleAgent.analyze_state) *)
(*   SpecMoves     the move scoring and selection                          *)
(*                 (src/src/agents/battle_agent.py, class BattleAgent)     *)
(*   SpecManager   the per-mode agent manager                              *)
(*                 (src/src/ai/agent_manager.py, class AgentManager)       *)
(*   SpecWorkers   the arbiter tick called by two threads                  *)
(*                 (src/src/agents/crew_manager.py, CrewManager.update)    *)
(*   SpecStateManager  the game state history                              *)
(*                 (src/src/game_state/manager.py, class GameStateManager) *)
(***************************************************************************)
EXTENDS Integers, Sequences, FiniteSets, TLC

VARIABLES
    \* ---- task scheduler (crew/crew_manager.py) ----
    config,                 \* self.config.task_config / self.agents, fixed at construction
    tasks,                  \* self.tasks: names that have a Task object
    task_dependencies,      \* self.task_dependencies: ordered name -> TaskDependency
    completed_tasks,        \* self.completed_tasks
    task_errors,            \* self.task_errors: name -> number of recorded TaskErrors
    consecutive_failures,   \* self.consecutive_failures
    call,                   \* observation of the last scheduler call: the operation,
                            \* its result, consecutive_failures at entry, what the
                            \* task body did if it ran, and the st fields above
    \* ---- arbiter (agents/crew_manager.py) ----
    agents,                 \* self.agents: registered names in dict order
    capable,                \* which registered agent objects answer can_handle with True always
    active_agent,           \* self.active_agent
    last_state,             \* self.last_state
    current_state,          \* self.state_manager.current_state
    \* ---- pathfinder (ai/pathfinding.py) ----
    search,                 \* the last find_path call: the collision map, start, goal
                            \* and the list returned
    \* ---- battle decision (ai/battle_agent.py, agents/battle_agent.py) ----
    decision,               \* the last battle decision call: its inputs and its answer
    \* ---- agent manager (ai/agent_manager.py) ----
    mode_agents,            \* self.mode_agents: mode -> agents in registration order
    workers,                \* the threads calling CrewManager.update of the arbiter:
                            \* where each is in update, and its locals
                            \* current_state and agent
    \* ---- game state manager (game_state/manager.py) ----
    state_manager,          \* GameStateManager: its current_state and state_history
    emulator,               \* what get_game_state has returned so far, in order, and
                            \* the last GameStateManager.update call: whether
                            \* get_game_state raised in it and how it ended
    executed,               \* the last AgentManager.update call: the mode, what each
                            \* agent's analyze_state offered, the sorted actions,
                            \* the agent whose action was executed and the result
    \* ---- find_path followed pass by pass (ai/pathfinding.py) ----
    run,                    \* a find_path call in progress: its arguments, where it
                            \* is, its locals open_set, closed_set and the nodes'
                            \* g_cost and parent, and the list returned
    \* ---- target and request queues (crew/agents) ----
    navigation,             \* CrewNavigationAgent: its current_target and target_queue
    menu,                   \* CrewMenuAgent: its current_request and request_queue
    added,                  \* how many targets and requests have been added so far;
                            \* the next one is named added + 1
    command_queue,          \* CommandQueue: its commands and a process_commands call in progress
    tick                    \* observation of the last arbiter call: its result, whether
                            \* an exception was raised inside it, whether the state was
                            \* observed, the agents asked can_handle, the agent whose
                            \* act ran, the registered agents able to handle the state,
                            \* whether mode and map equal the previous observation's,
                            \* active_agent at entry, whether the tick before raised

vars == <<config, tasks, task_dependencies, completed_tasks, task_errors,
          consecutive_failures, call, agents, capable, active_agent,
          last_state, current_state, tick, search, decision, mode_agents,
          executed, workers, state_manager, emulator,
          run,
          navigation, menu, added,
          command_queue>>

schedVars == <<config, tasks, task_dependencies, completed_tasks, task_errors,
               consecutive_failures, call>>

arbVars == <<agents, capable, active_agent, last_state, current_state, tick>>

pfVars == <<search>>

battleVars == <<decision>>

mgrVars == <<mode_agents, executed>>

workerVars == <<workers>>

gsmVars == <<state_manager, emulator>>

searchVars == <<run>>

queueVars == <<navigation, menu, added>>

cmdVars == <<command_queue>>

\* what an operation of one component leaves alone: the other components
notSched ==
    <<arbVars, pfVars, battleVars, mgrVars, workerVars, gsmVars,
      searchVars, queueVars, cmdVars>>

notArb ==
    <<schedVars, pfVars, battleVars, mgrVars, workerVars, gsmVars,
      searchVars, queueVars, cmdVars>>

notPf ==
    <<schedVars, arbVars, battleVars, mgrVars, workerVars, gsmVars,
      searchVars, queueVars, cmdVars>>

notBattle ==
    <<schedVars, arbVars, pfVars, mgrVars, workerVars, gsmVars,
      searchVars, queueVars, cmdVars>>

notMgr ==
    <<schedVars, arbVars, pfVars, battleVars, workerVars, gsmVars,
      searchVars, queueVars, cmdVars>>

\* left alone by a step of a thread in the arbiter's update
notWorkers ==
    <<schedVars, pfVars, battleVars, mgrVars, gsmVars, searchVars,
      queueVars, cmdVars>>

notGsm ==
    <<schedVars, arbVars, pfVars, battleVars, mgrVars, workerVars,
      searchVars, queueVars, cmdVars>>

notSearch ==
    <<schedVars, arbVars, pfVars, battleVars, mgrVars, workerVars, gsmVars,
      queueVars, cmdVars>>

notQueues ==
    <<schedVars, arbVars, pfVars, battleVars, mgrVars, workerVars, gsmVars,
      searchVars, cmdVars>>

notCommands ==
    <<schedVars, arbVars, pfVars, battleVars, mgrVars, workerVars, gsmVars,
      searchVars, queueVars>>

None == "None"

(***************************************************************************)
(* Bounds of the exploration                                               *)
(***************************************************************************)
\* a configured max_retries other than 1 and the default
MaxRetriesCfg == 2
\* cap on consecutive_failures: calls are not started at or above it
MaxCF == 4

(***************************************************************************)
(* Program constants                                                       *)
(***************************************************************************)
DefaultMaxRetries == 3
DefaultMaxFailures == 3

(***************************************************************************)
(* Task scheduler: configuration                                           *)
(***************************************************************************)
TaskNames == {"explore", "battle_gym", "menu_heal", "navigation_route"}

\* error_type in task_name.lower(): the recovery keys each task name contains
NameContains(task_name) ==
    CASE task_name = "battle_gym" -> {"battle"}
      [] task_name = "menu_heal" -> {"menu"}
      [] task_name = "navigation_route" -> {"navigation"}
      [] OTHER -> {}

\* task_config graphs: declared task entries (dict order), the "dependencies"
\* entry (dict order, each with its list), and the entries Task() cannot be
\* built from (no description / expected_output)
Diamond ==
    [declared |-> <<"explore", "battle_gym", "menu_heal", "navigation_route">>,
     dependencies |-> << <<"battle_gym", <<"explore">> >>,
                         <<"menu_heal", <<"explore">> >>,
                         <<"navigation_route", <<"battle_gym", "menu_heal">> >> >>,
     broken |-> {}]

Fork ==
    [declared |-> <<"menu_heal", "battle_gym", "navigation_route">>,
     dependencies |-> << <<"navigation_route", <<"battle_gym">> >> >>,
     broken |-> {}]

Cycle ==
    [declared |-> <<"explore", "battle_gym">>,
     dependencies |-> << <<"explore", <<"battle_gym">> >>,
                         <<"battle_gym", <<"explore">> >> >>,
     broken |-> {}]

Undeclared ==
    [declared |-> <<"explore", "menu_heal">>,
     dependencies |-> << <<"menu_heal", <<"explore", "navigation_route">> >> >>,
     broken |-> {"explore"}]

Pair ==
    [declared |-> <<"navigation_route", "battle_gym">>,
     dependencies |-> << <<"battle_gym", <<"navigation_route">> >> >>,
     broken |-> {}]

Graphs == {Diamond, Fork, Pair, Cycle, Undeclared}

NoRecovery == << >>
RecoveryTable == << <<"battle", "retreat">>,
                    <<"navigation", "return_to_last_center">>,
                    <<"menu", "reset_to_main">> >>

\* error_handling entries of task_config
ErrorConfig(r, f, t) ==
    [max_retries |-> r, max_consecutive_failures |-> f, recovery_actions |-> t]

\* the entry missing: .get() falls back on the defaults
DefaultErrorConfig == ErrorConfig(DefaultMaxRetries, DefaultMaxFailures, NoRecovery)

Construction(g, e, a) == [graph |-> g, error_config |-> e, agents_ok |-> a]

\* the constructions explored; agents_ok is FALSE when _initialize_agents
\* failed and left self.agents = {}
Configs ==
    { Construction(Diamond, ErrorConfig(1, 1, NoRecovery), TRUE),
      Construction(Fork, ErrorConfig(MaxRetriesCfg, DefaultMaxFailures, RecoveryTable), TRUE),
      Construction(Pair, DefaultErrorConfig, TRUE),
      Construction(Pair, ErrorConfig(MaxRetriesCfg, 1, NoRecovery), TRUE),
      Construction(Pair, ErrorConfig(1, DefaultMaxFailures, RecoveryTable), TRUE),
      Construction(Pair, ErrorConfig(DefaultMaxRetries, 2, RecoveryTable), TRUE),
      Construction(Pair, ErrorConfig(MaxRetriesCfg, DefaultMaxFailures, RecoveryTable), FALSE),
      Construction(Cycle, DefaultErrorConfig, TRUE),
      Construction(Undeclared, DefaultErrorConfig, TRUE) }

(***************************************************************************)
(* Task scheduler: helpers over the ordered dict task_dependencies         *)
(***************************************************************************)
RECURSIVE SeqToSet(_)
SeqToSet(s) == IF s = << >> THEN {} ELSE {Head(s)} \cup SeqToSet(Tail(s))

TdKeys(td) == { td[i].name : i \in 1..Len(td) }

TdIndex(td, name) == CHOOSE i \in 1..Len(td) : td[i].name = name

TdGet(td, name) == td[TdIndex(td, name)]

\* TaskDependency(): both sets empty
TaskDependency(name) == [name |-> name, dependencies |-> {}, dependents |-> {}]

RECURSIVE DeclareAll(_)
DeclareAll(names) ==
    IF names = << >> THEN << >>
    ELSE <<TaskDependency(Head(names))>> \o DeclareAll(Tail(names))

\* the (task_name, dep) pairs in the order the nested loops visit them
RECURSIVE DepPairs(_)
DepPairs(deps) ==
    IF deps = << >> THEN << >>
    ELSE LET task_name == Head(deps)[1]
             lst == Head(deps)[2]
         IN  [i \in 1..Len(lst) |-> <<task_name, lst[i]>>] \o DepPairs(Tail(deps))

\* lines 164-169; a KeyError on an undeclared name ends the build (line 171),
\* keeping what was added before it
RECURSIVE AddPairs(_, _)
AddPairs(td, pairs) ==
    IF pairs = << >> THEN td
    ELSE LET task_name == Head(pairs)[1]
             dep == Head(pairs)[2]
         IN  IF task_name \notin TdKeys(td) THEN td
             ELSE LET i == TdIndex(td, task_name)
                      td1 == [td EXCEPT ![i].dependencies = @ \cup {dep}]
                  IN  IF dep \notin TdKeys(td1) THEN td1
                      ELSE LET j == TdIndex(td1, dep)
                               td2 == [td1 EXCEPT ![j].dependents = @ \cup {task_name}]
                           IN  AddPairs(td2, Tail(pairs))

_build_dependency_graph(cfg) ==
    AddPairs(DeclareAll(cfg.graph.declared), DepPairs(cfg.graph.dependencies))

\* get_ready_tasks wrongly listing tasks with at least one completed dependency
get_ready_tasks_any(td, completed) ==
    SelectSeq([i \in 1..Len(td) |-> td[i].name],
              LAMBDA task_name :
                  /\ task_name \notin completed
                  /\ \/ TdGet(td, task_name).dependencies = {}
                     \/ TdGet(td, task_name).dependencies \cap completed # {})

get_ready_tasks(td, completed) ==
    SelectSeq([i \in 1..Len(td) |-> td[i].name],
              LAMBDA task_name :
                  /\ task_name \notin completed
                  /\ TdGet(td, task_name).dependencies \subseteq completed)

(***************************************************************************)
(* Task scheduler: operations on the manager's mutable state               *)
(*   st = [tasks, td, completed, errors, cf, ran, nruns, rerun, last]      *)
(* The last four fields observe the call being modelled: the tasks whose   *)
(* body ran, how many times the body of the task executed last ran,        *)
(* whether some body ran for a task already in completed_tasks, and the    *)
(* task of the latest execute_task.                                        *)
(***************************************************************************)
\* outcome of one task body (self.crew.execute_task): returns a value,
\* returns None, raises on the first attempt only, raises on every attempt
BodyOutcomes == {"value", "none", "raise_once", "raise_always"}

\* lines 274-278: first recovery_actions entry whose key occurs in the name
RECURSIVE RecoveryFor(_, _)
RecoveryFor(table, task_name) ==
    IF table = << >> THEN None
    ELSE IF Head(table)[1] \in NameContains(task_name) THEN Head(table)[2]
         ELSE RecoveryFor(Tail(table), task_name)

\* _execute_recovery_action; turn_ok is what battle_agent.execute_battle_turn
\* returns.  reset_to_main reaches MenuRequest / MenuAction, names this module
\* never imports: the NameError is caught at line 344 and False returned.
_execute_recovery_action(action, turn_ok) ==
    IF ~config.agents_ok THEN FALSE
    ELSE CASE action = "retreat" -> turn_ok
           [] action = "return_to_last_center" -> TRUE
           [] action = "reset_to_main" -> FALSE
           [] OTHER -> FALSE

\* handle_error that never gives up on too many consecutive failures
handle_error_noabort(st, task_name, turn_ok) ==
    LET st1 == [st EXCEPT !.cf = @ + 1, !.errors[task_name] = @ + 1]
        action == RecoveryFor(config.error_config.recovery_actions, task_name)
    IN  IF action # None
        THEN [st |-> st1, ret |-> _execute_recovery_action(action, turn_ok)]
        ELSE [st |-> st1, ret |-> TRUE]

\* handle_error recording the error before it looks at the counter
handle_error_records_first(st, task_name, turn_ok) ==
    LET st1 == [st EXCEPT !.cf = @ + 1]
        action == RecoveryFor(config.error_config.recovery_actions, task_name)
        st2 == [st1 EXCEPT !.errors[task_name] = @ + 1]
    IN  IF st1.cf > config.error_config.max_consecutive_failures
        THEN [st |-> st2, ret |-> FALSE]
        ELSE IF action # None
             THEN [st |-> st2, ret |-> _execute_recovery_action(action, turn_ok)]
             ELSE [st |-> st2, ret |-> TRUE]

handle_error(st, task_name, turn_ok) ==
    LET st1 == [st EXCEPT !.cf = @ + 1]
        action == RecoveryFor(config.error_config.recovery_actions, task_name)
        st2 == [st1 EXCEPT !.errors[task_name] = @ + 1]
    IN  IF st1.cf > config.error_config.max_consecutive_failures
        THEN [st |-> st1, ret |-> FALSE]
        ELSE IF action # None
             THEN [st |-> st2, ret |-> _execute_recovery_action(action, turn_ok)]
             ELSE [st |-> st2, ret |-> TRUE]

\* reset_error_state without line 351: the recorded errors are kept
reset_error_state_keeps_errors(st) == [st EXCEPT !.cf = 0]

\* reset_error_state
reset_error_state(st) ==
    [st EXCEPT !.cf = 0, !.errors = [t \in TaskNames |-> 0]]

\* create_task: None when the task has no config entry, no agent, or Task() raises
create_task_ok(task_name) ==
    /\ task_name \in SeqToSet(config.graph.declared)
    /\ task_name \notin config.graph.broken
    /\ config.agents_ok

\* the retry loop, lines 391-412, from attempt number attempt (0-based);
\* fail_at is the attempt (1-based) at which the recovery's
\* execute_battle_turn answers False, 0 for never
RECURSIVE RetryLoop(_, _, _, _, _)
RetryLoop(st, task_name, attempt, outcome, fail_at) ==
    IF attempt >= config.error_config.max_retries
    THEN [st |-> st, result |-> None]
    ELSE LET ran == [st EXCEPT !.ran = @ \cup {task_name},
                               !.nruns = @ + 1,
                               !.rerun = @ \/ task_name \in st.completed]
             raises == \/ outcome = "raise_always"
                       \/ outcome = "raise_once" /\ attempt = 0
         IN  IF ~raises
             THEN [st |-> [reset_error_state(ran) EXCEPT
                              !.completed = @ \cup {task_name}],
                   result |-> IF outcome = "none" THEN None ELSE "value"]
             ELSE LET he == handle_error(ran, task_name, fail_at # attempt + 1)
                  IN  IF ~he.ret THEN [st |-> he.st, result |-> None]
                      ELSE RetryLoop(he.st, task_name, attempt + 1, outcome, fail_at)

\* execute_task without the readiness check of lines 376-378
execute_task_unchecked(st0, task_name, outcome, fail_at) ==
    LET st == [st0 EXCEPT !.last = task_name, !.nruns = 0]
    IN  IF task_name \notin TdKeys(st.td)
        THEN [st |-> handle_error(st, task_name, fail_at # 1).st, result |-> None]
        ELSE IF task_name \notin st.tasks /\ ~create_task_ok(task_name)
        THEN [st |-> st, result |-> None]
        ELSE RetryLoop([st EXCEPT !.tasks = @ \cup {task_name}],
                       task_name, 0, outcome, fail_at)

execute_task(st0, task_name, outcome, fail_at) ==
    LET st == [st0 EXCEPT !.last = task_name, !.nruns = 0]
    IN  IF task_name \notin TdKeys(st.td)
        THEN \* KeyError at line 376, caught at line 414
             [st |-> handle_error(st, task_name, fail_at # 1).st, result |-> None]
        ELSE IF ~(TdGet(st.td, task_name).dependencies \subseteq st.completed)
        THEN [st |-> st, result |-> None]
        ELSE IF task_name \notin st.tasks /\ ~create_task_ok(task_name)
        THEN [st |-> st, result |-> None]
        ELSE RetryLoop([st EXCEPT !.tasks = @ \cup {task_name}],
                       task_name, 0, outcome, fail_at)

\* the loop over the ready tasks going on after a failed task
RECURSIVE RunReady_continue(_, _, _, _)
RunReady_continue(st, ready_tasks, plan, fail_at) ==
    IF ready_tasks = << >> THEN [st |-> st, failed |-> None]
    ELSE LET r == execute_task(st, Head(ready_tasks), plan[Head(ready_tasks)], fail_at)
             rest == RunReady_continue(r.st, Tail(ready_tasks), plan, fail_at)
         IN  [st |-> rest.st,
              failed |-> IF r.result = None THEN Head(ready_tasks) ELSE rest.failed]

\* lines 439-443: run each ready task, stop at the first None
RECURSIVE RunReady(_, _, _, _)
RunReady(st, ready_tasks, plan, fail_at) ==
    IF ready_tasks = << >> THEN [st |-> st, failed |-> None]
    ELSE LET r == execute_task(st, Head(ready_tasks), plan[Head(ready_tasks)], fail_at)
         IN  IF r.result = None THEN [st |-> r.st, failed |-> Head(ready_tasks)]
             ELSE RunReady(r.st, Tail(ready_tasks), plan, fail_at)

\* lines 431-445
RECURSIVE AllTasksLoop(_, _, _)
AllTasksLoop(st, plan, fail_at) ==
    IF ~(Cardinality(st.completed) < Cardinality(st.tasks))
    THEN [st |-> st, result |-> TRUE, failed |-> None]
    ELSE LET ready_tasks == get_ready_tasks(st.td, st.completed)
         IN  IF ready_tasks = << >>
             THEN [st |-> st, result |-> FALSE, failed |-> None]
             ELSE LET r == RunReady(st, ready_tasks, plan, fail_at)
                  IN  IF r.failed # None
                      THEN [st |-> r.st, result |-> FALSE, failed |-> r.failed]
                      ELSE AllTasksLoop(r.st, plan, fail_at)

execute_all_tasks(st, plan, fail_at) ==
    LET st1 == IF st.td = << >>
               THEN [st EXCEPT !.td = _build_dependency_graph(config)]
               ELSE st
    IN  AllTasksLoop(st1, plan, fail_at)

(***************************************************************************)
(* Task scheduler: state machine                                           *)
(***************************************************************************)
State ==
    [tasks |-> tasks, td |-> task_dependencies, completed |-> completed_tasks,
     errors |-> task_errors, cf |-> consecutive_failures,
     ran |-> {}, nruns |-> 0, rerun |-> FALSE, last |-> None]

NoCall ==
    [op |-> "none", task |-> None, result |-> None, failed |-> None,
     ran |-> {}, nruns |-> 0, rerun |-> FALSE, last |-> None,
     outcome |-> None, fail_at |-> 0, cf_before |-> 0]

Install(st) ==
    /\ tasks' = st.tasks
    /\ task_dependencies' = st.td
    /\ completed_tasks' = st.completed
    /\ task_errors' = st.errors
    /\ consecutive_failures' = st.cf

SchedInit ==
    /\ config \in Configs
    /\ tasks = {}
    /\ task_dependencies = << >>
    /\ completed_tasks = {}
    /\ task_errors = [t \in TaskNames |-> 0]
    /\ consecutive_failures = 0
    /\ call = NoCall

Raises(outcome) == outcome \in {"raise_once", "raise_always"}

\* the attempts at which execute_battle_turn may answer False (0: never); the
\* answer is only asked for when the retreat recovery runs
FailAts(raising) ==
    IF /\ config.agents_ok
       /\ \E t \in raising :
              RecoveryFor(config.error_config.recovery_actions, t) = "retreat"
    THEN 0..config.error_config.max_retries
    ELSE {0}

\* the task bodies of one execute_all_tasks run: the run ends at the first
\* task whose execute_task returns None, so one task (bad) is given a body
\* that returns None or always raises, battle_gym possibly (once) a body that
\* raises on its first attempt, and every other body returns a value
PlanOf(once, bad, bad_outcome) ==
    [t \in TaskNames |-> IF t = bad THEN bad_outcome
                         ELSE IF t = once THEN "raise_once"
                         ELSE "value"]

Plans ==
    { PlanOf(once, bad, bo) :
        once \in {"battle_gym", None}, bad \in TaskNames \cup {None},
        bo \in {"none", "raise_always"} }

\* public create_task(task_name)
CreateTask(task_name) ==
    /\ create_task_ok(task_name)
    /\ tasks' = tasks \cup {task_name}
    /\ call' = [NoCall EXCEPT !.op = "create_task", !.result = "value"]
    /\ UNCHANGED <<config, task_dependencies, completed_tasks, task_errors,
                   consecutive_failures>>
    /\ UNCHANGED notSched

CreateTaskFails(task_name) ==
    /\ ~create_task_ok(task_name)
    /\ call' = [NoCall EXCEPT !.op = "create_task"]
    /\ UNCHANGED <<config, tasks, task_dependencies, completed_tasks, task_errors,
                   consecutive_failures>>
    /\ UNCHANGED notSched

\* public execute_task(task_name)
ExecuteTask(task_name, outcome, fail_at) ==
    /\ consecutive_failures < MaxCF
    /\ LET r == execute_task(State, task_name, outcome, fail_at)
       IN  /\ Install(r.st)
           /\ call' = [op |-> "execute_task", task |-> task_name,
                       result |-> r.result,
                       failed |-> IF r.result = None THEN task_name ELSE None,
                       ran |-> r.st.ran, nruns |-> r.st.nruns,
                       rerun |-> r.st.rerun, last |-> r.st.last,
                       outcome |-> IF r.st.nruns > 0 THEN outcome ELSE None,
                       fail_at |-> fail_at,
                       cf_before |-> consecutive_failures]
    /\ UNCHANGED config
    /\ UNCHANGED notSched

\* public execute_all_tasks()
ExecuteAllTasks(plan, fail_at) ==
    /\ consecutive_failures < MaxCF
    /\ LET r == execute_all_tasks(State, plan, fail_at)
       IN  /\ Install(r.st)
           /\ call' = [op |-> "execute_all_tasks", task |-> None,
                       result |-> IF r.result THEN "True" ELSE "False",
                       failed |-> r.failed,
                       ran |-> r.st.ran, nruns |-> r.st.nruns,
                       rerun |-> r.st.rerun, last |-> r.st.last,
                       outcome |-> IF r.failed # None /\ r.st.nruns > 0
                                   THEN plan[r.failed] ELSE None,
                       fail_at |-> fail_at,
                       cf_before |-> consecutive_failures]
    /\ UNCHANGED config
    /\ UNCHANGED notSched

\* the names passed to create_task and execute_task: the declared tasks and
\* one name task_config does not declare
Callable ==
    LET declared == SeqToSet(config.graph.declared)
    IN  IF declared = TaskNames THEN declared
        ELSE declared \cup {CHOOSE t \in TaskNames : t \notin declared}

(***************************************************************************)
(* Arbiter (agents/crew_manager.py): game states and agents                *)
(***************************************************************************)
\* largest map id and largest player coordinate observed
MaxMap == 1
MaxCoord == 1
\* most agents registered at once
MaxAgents == 2

\* emulator/game_state.py GameMode
GameModes == {"unknown", "battle", "dialog", "menu", "overworld"}

\* emulator/interface.py GameState: the fields the arbiter reads; the player
\* moves along x
GameStates ==
    [mode : GameModes, in_battle : BOOLEAN, in_menu : BOOLEAN,
     current_map : 0..MaxMap, player_x : 0..MaxCoord, player_y : {0}]

\* the states the arbiter's state manager reports in the tick model: the mode
\* and the map vary, the flags follow the mode
Observed ==
    { s \in GameStates : /\ s.in_battle = (s.mode = "battle")
                         /\ s.in_menu = (s.mode = "menu")
                         /\ s.player_x = 0 /\ s.player_y = 0 }

\* self.last_state / current_state before the first observation
NoState == [none |-> TRUE]

AgentNames == {"battle", "dialog", "menu", "navigation"}

\* ai/agent_manager.py AgentPriority
PriorityBattle == 100
PriorityNavigation == 50
PriorityMenu == 75
PriorityDialog == 90

AgentPriority(name) ==
    CASE name = "battle" -> PriorityBattle
      [] name = "navigation" -> PriorityNavigation
      [] name = "menu" -> PriorityMenu
      [] name = "dialog" -> PriorityDialog

\* the game mode an agent registered under a name is written for
OwnMode(name) == IF name = "navigation" THEN "overworld" ELSE name

\* agent.can_handle(state): an agent registered as always-capable (the test's
\* MockAgent(can_handle_state=True)) accepts every state, any other agent the
\* states of its own mode (lambda state: state.mode == GameMode.X)
can_handle(name, always, state) ==
    \/ name \in always
    \/ state.mode = OwnMode(name)

\* get_appropriate_agent choosing by AgentPriority instead of dict order
get_appropriate_agent_priority(registered, always, state) ==
    LET candidates == SelectSeq(registered, LAMBDA name : can_handle(name, always, state))
        names == SeqToSet(candidates)
    IN  [agent |-> IF candidates = << >> THEN None
                   ELSE CHOOSE a \in names :
                            \A b \in names : AgentPriority(a) >= AgentPriority(b),
         queried |-> registered]

\* get_appropriate_agent keeping the active agent while mode and map stay
get_appropriate_agent_sticky(registered, always, state) ==
    IF /\ active_agent # None
       /\ current_state # NoState
       /\ current_state.mode = state.mode
       /\ current_state.current_map = state.current_map
    THEN [agent |-> active_agent, queried |-> << >>]
    ELSE LET candidates ==
                 SelectSeq(registered, LAMBDA name : can_handle(name, always, state))
         IN  [agent |-> IF candidates = << >> THEN None ELSE Head(candidates),
              queried |-> registered]

\* get_appropriate_agent: every registered agent is asked, in dict order, and
\* the first candidate is returned
get_appropriate_agent(registered, always, state) ==
    LET candidates == SelectSeq(registered, LAMBDA name : can_handle(name, always, state))
    IN  [agent |-> IF candidates = << >> THEN None ELSE Head(candidates),
         queried |-> registered]

\* _state_changed that also reports a move of the player
_state_changed_position(last, current) ==
    IF last = NoState THEN [changed |-> TRUE, last_state |-> last]
    ELSE [changed |-> \/ current.in_battle # last.in_battle
                      \/ current.in_menu # last.in_menu
                      \/ current.current_map # last.current_map
                      \/ current.player_x # last.player_x
                      \/ current.player_y # last.player_y,
          last_state |-> current]

\* _state_changed(current_state) with self.last_state = last: the answer and
\* the new self.last_state (line 161 returns before line 171 is reached)
_state_changed(last, current) ==
    IF last = NoState THEN [changed |-> TRUE, last_state |-> last]
    ELSE [changed |-> \/ current.in_battle # last.in_battle
                      \/ current.in_menu # last.in_menu
                      \/ current.current_map # last.current_map,
          last_state |-> current]

NoTick ==
    [op |-> "none", result |-> None, raised |-> FALSE, observed |-> FALSE,
     queried |-> << >>,
     acted |-> None, handlers |-> {}, same |-> FALSE, active_before |-> None,
     after_raise |-> FALSE, prev |-> NoState, cur |-> NoState]

\* update without its except clause: the exception reaches the caller
update_on_exception_propagates == "raised"

\* what reaches the caller of update when an exception is raised inside the
\* try block: line 146 catches it and line 148 returns False
update_on_exception == "False"

ArbInit ==
    /\ agents = <<"battle">>
    /\ capable = {}
    /\ active_agent = None
    /\ last_state = NoState
    /\ current_state = NoState
    /\ tick = NoTick

\* register_agent(name, agent) for a name not yet registered
RegisterAgent(name, is_always) ==
    /\ name \notin SeqToSet(agents)
    /\ Len(agents) < MaxAgents
    /\ agents' = Append(agents, name)
    /\ capable' = IF is_always THEN capable \cup {name} ELSE capable
    /\ tick' = [NoTick EXCEPT !.op = "register_agent"]
    /\ UNCHANGED <<active_agent, last_state, current_state>>
    /\ UNCHANGED notArb

\* unregister_agent(name)
UnregisterAgent(name) ==
    /\ name \in SeqToSet(agents)
    /\ agents' = SelectSeq(agents, LAMBDA a : a # name)
    /\ capable' = capable \ {name}
    /\ tick' = [NoTick EXCEPT !.op = "unregister_agent"]
    /\ UNCHANGED <<active_agent, last_state, current_state>>
    /\ UNCHANGED notArb

Same(s, t) ==
    /\ s # NoState
    /\ t # NoState
    /\ s.mode = t.mode
    /\ s.current_map = t.current_map

\* update() when self.state_manager.update() raises
UpdateObservationRaises ==
    /\ tick' = [NoTick EXCEPT !.op = "update", !.result = update_on_exception,
                              !.raised = TRUE, !.active_before = active_agent,
                              !.after_raise = (tick.op = "update" /\ tick.raised)]
    /\ UNCHANGED <<agents, capable, active_agent, last_state, current_state>>
    /\ UNCHANGED notArb

\* update() observing state s; act is what agent.act(current_state) does
Update(s, act) ==
    LET sc == _state_changed(last_state, s)
        sel == get_appropriate_agent(agents, capable, s)
    IN  /\ current_state' = s
        /\ last_state' = sc.last_state
        /\ active_agent' = IF sel.agent # None THEN sel.agent ELSE active_agent
        /\ tick' = [op |-> "update",
                    result |-> IF sel.agent = None THEN "False"
                               ELSE IF act = "raise" THEN update_on_exception
                               ELSE act,
                    raised |-> (sel.agent # None /\ act = "raise"),
                    observed |-> TRUE,
                    queried |-> sel.queried,
                    acted |-> sel.agent,
                    handlers |-> {a \in SeqToSet(agents) : can_handle(a, capable, s)},
                    same |-> Same(current_state, s),
                    active_before |-> active_agent,
                    after_raise |-> (tick.op = "update" /\ tick.raised),
                    prev |-> NoState, cur |-> NoState]
        /\ UNCHANGED <<agents, capable>>
        /\ UNCHANGED notArb

(***************************************************************************)
(* update() called by two threads on one CrewManager.  The method takes no *)
(* lock, so the threads are switched between its statements: the state     *)
(* manager's update, the read of its current_state, the state-change check *)
(* with the choice of the agent and the assignment of active_agent, and    *)
(* agent.act.                                                              *)
(***************************************************************************)
Workers == {"w1", "w2"}

IdleWorker == [pc |-> "idle", current_state |-> NoState, agent |-> None]

WorkersIdle == workers = [w \in Workers |-> IdleWorker]

\* line 122: self.state_manager.update() observes the state s of the emulator
WorkerObserves(w, s) ==
    /\ workers[w].pc = "idle"
    /\ current_state' = s
    /\ workers' = [workers EXCEPT ![w].pc = "observed"]
    /\ UNCHANGED <<agents, capable, active_agent, last_state, tick>>
    /\ UNCHANGED notWorkers

\* line 123: current_state = self.state_manager.current_state
WorkerReads(w) ==
    /\ workers[w].pc = "observed"
    /\ workers' = [workers EXCEPT ![w].pc = "read",
                                  ![w].current_state = current_state]
    /\ UNCHANGED arbVars
    /\ UNCHANGED notWorkers

\* lines 126-135 and 142-144: the state-change check, get_appropriate_agent
\* and the assignment of self.active_agent; without an agent update returns
WorkerArbitrates(w) ==
    /\ workers[w].pc = "read"
    /\ LET sc == _state_changed(last_state, workers[w].current_state)
           sel == get_appropriate_agent(agents, capable, workers[w].current_state)
       IN  /\ last_state' = sc.last_state
           /\ active_agent' = IF sel.agent # None THEN sel.agent ELSE active_agent
           /\ workers' = [workers EXCEPT ![w] =
                             IF sel.agent = None THEN IdleWorker
                             ELSE [@ EXCEPT !.pc = "dispatch", !.agent = sel.agent]]
    /\ UNCHANGED <<agents, capable, current_state, tick>>
    /\ UNCHANGED notWorkers

\* lines 138-141: agent.act(current_state) and the return of its answer
WorkerActs(w) ==
    /\ workers[w].pc = "dispatch"
    /\ workers' = [workers EXCEPT ![w] = IdleWorker]
    /\ UNCHANGED arbVars
    /\ UNCHANGED notWorkers

(***************************************************************************)
(* State-change check called directly on a manager whose last_state was    *)
(* assigned by the caller (tests/test_crew_manager.py lines 172-176)       *)
(***************************************************************************)
SeedLastState(s) ==
    /\ last_state' = s
    /\ tick' = [NoTick EXCEPT !.op = "seed"]
    /\ UNCHANGED <<agents, capable, active_agent, current_state>>
    /\ UNCHANGED notArb

StateChanged(s) ==
    LET sc == _state_changed(last_state, s)
    IN  /\ last_state' = sc.last_state
        /\ tick' = [NoTick EXCEPT !.op = "_state_changed",
                                  !.result = IF sc.changed THEN "True" ELSE "False",
                                  !.prev = last_state, !.cur = s]
        /\ UNCHANGED <<agents, capable, active_agent, current_state>>
        /\ UNCHANGED notArb

(***************************************************************************)
(* Pathfinder (ai/pathfinding.py)                                          *)
(***************************************************************************)
\* side of the square collision maps searched
GridSide == 6

\* PathFinder.STRAIGHT_COST
STRAIGHT_COST == 1

Abs(n) == IF n < 0 THEN -n ELSE n

\* the cells of a collision map, (x, y) with x the column and y the row
Cells == { <<x, y>> : x \in 0..(GridSide - 1), y \in 0..(GridSide - 1) }

\* every neighbour offset is cardinal, so line 113 charges STRAIGHT_COST
move_cost(d) == STRAIGHT_COST

\* _get_neighbors that also offers one diagonal offset
_get_neighbors_diagonal == << <<0, 1>>, <<1, 0>>, <<0, -1>>, <<-1, 0>>, <<1, 1>> >>

\* _get_neighbors(): the offsets in the order the list gives them
_get_neighbors == << <<0, 1>>, <<1, 0>>, <<0, -1>>, <<-1, 0>> >>

\* _is_valid_position(x, y) with width = height = GridSide
_is_valid_position(c) ==
    /\ 0 <= c[1] /\ c[1] < GridSide
    /\ 0 <= c[2] /\ c[2] < GridSide

\* _calculate_h_cost(x1, y1, x2, y2)
_calculate_h_cost(c, goal) == Abs(goal[1] - c[1]) + Abs(goal[2] - c[2])

\* Node.f_cost of the node at cell c, read when two nodes are compared
f_cost(g, goal, c) == g[c] + _calculate_h_cost(c, goal)

\* Node.__lt__
NodeLt(g, goal, a, b) == f_cost(g, goal, a) < f_cost(g, goal, b)

\* heapq._siftdown(heap, startpos, pos), positions counted from 0 as in Python
RECURSIVE SiftDownLoop(_, _, _, _, _, _)
SiftDownLoop(g, goal, heap, startpos, pos, newitem) ==
    LET parentpos == (pos - 1) \div 2
    IN  IF pos > startpos /\ NodeLt(g, goal, newitem, heap[parentpos + 1])
        THEN SiftDownLoop(g, goal, [heap EXCEPT ![pos + 1] = heap[parentpos + 1]],
                          startpos, parentpos, newitem)
        ELSE [heap EXCEPT ![pos + 1] = newitem]

_siftdown(g, goal, heap, startpos, pos) ==
    SiftDownLoop(g, goal, heap, startpos, pos, heap[pos + 1])

\* heapq._siftup(heap, pos): the smaller child is moved up until a leaf is
\* reached, then the item is sifted down from there; the child chosen and
\* the heap after the first loop are computed once
RECURSIVE SiftUpLoop(_, _, _, _, _)
SiftUpLoop(g, goal, heap, pos, newitem) ==
    LET endpos == Len(heap)
        childpos == 2 * pos + 1
        rightpos == childpos + 1
    IN  IF childpos < endpos
        THEN CHOOSE sifted \in
                 { SiftUpLoop(g, goal, [heap EXCEPT ![pos + 1] = heap[chosen + 1]],
                              chosen, newitem) :
                       chosen \in
                           { IF /\ rightpos < endpos
                                /\ ~NodeLt(g, goal, heap[childpos + 1],
                                           heap[rightpos + 1])
                             THEN rightpos ELSE childpos } } : TRUE
        ELSE [heap |-> [heap EXCEPT ![pos + 1] = newitem], pos |-> pos]

_siftup(g, goal, heap, pos) ==
    CHOOSE sifted \in
        { _siftdown(g, goal, r.heap, pos, r.pos) :
              r \in { SiftUpLoop(g, goal, heap, pos, heap[pos + 1]) } } : TRUE

\* heapq.heappush(heap, item)
heappush(g, goal, heap, item) ==
    _siftdown(g, goal, Append(heap, item), 0, Len(heap))

\* heapq.heappop(heap): the item returned and the heap left
heappop(g, goal, heap) ==
    LET lastelt == heap[Len(heap)]
        rest == SubSeq(heap, 1, Len(heap) - 1)
    IN  IF rest # << >>
        THEN [item |-> rest[1],
              heap |-> _siftup(g, goal, [rest EXCEPT ![1] = lastelt], 0)]
        ELSE [item |-> lastelt, heap |-> << >>]

\* _reconstruct_path(end_node): parent links followed back to the node that
\* has none, then reversed
RECURSIVE ParentChain(_, _)
ParentChain(parent, c) ==
    IF c \in DOMAIN parent THEN Append(ParentChain(parent, parent[c]), c)
    ELSE <<c>>

\* _reconstruct_path without the reversal of line 194: from the end node back
_reconstruct_path_unreversed(parent, end_node) ==
    LET path == ParentChain(parent, end_node)
    IN  [i \in 1..Len(path) |-> path[Len(path) + 1 - i]]

\* _reconstruct_path leaving out the node that has no parent
_reconstruct_path_nostart(parent, end_node) == Tail(ParentChain(parent, end_node))

_reconstruct_path(parent, end_node) == ParentChain(parent, end_node)

\* the pass of the loop putting a closed node back into the open set when it
\* is reached again at no lower cost, where line 129 skips it
Relax_reopens_closed(collision_map, goal, ss, current, d) ==
    LET new == <<current[1] + d[1], current[2] + d[2]>>
        tentative_g_cost == ss.g[current] + move_cost(d)
        g2 == [c \in DOMAIN ss.g \cup {new} |->
                   IF c = new THEN tentative_g_cost ELSE ss.g[c]]
        parent2 == [c \in DOMAIN ss.parent \cup {new} |->
                        IF c = new THEN current ELSE ss.parent[c]]
    IN  IF ~_is_valid_position(new) THEN ss
        ELSE IF new \notin collision_map THEN ss
        ELSE IF new \in ss.closed_set /\ tentative_g_cost >= ss.g[new]
        THEN [ss EXCEPT !.open_set = IF new \in SeqToSet(ss.open_set)
                                     THEN ss.open_set
                                     ELSE heappush(ss.g, goal, ss.open_set, new)]
        ELSE IF new \notin DOMAIN ss.g \/ tentative_g_cost < ss.g[new]
        THEN [ss EXCEPT !.g = g2, !.parent = parent2,
                        !.open_set = IF new \in SeqToSet(ss.open_set)
                                     THEN ss.open_set
                                     ELSE heappush(g2, goal, ss.open_set, new)]
        ELSE ss

\* the pass of the loop without the walkability test of lines 109-110
Relax_through_walls(collision_map, goal, ss, current, d) ==
    LET new == <<current[1] + d[1], current[2] + d[2]>>
        tentative_g_cost == ss.g[current] + move_cost(d)
        g2 == [c \in DOMAIN ss.g \cup {new} |->
                   IF c = new THEN tentative_g_cost ELSE ss.g[c]]
        parent2 == [c \in DOMAIN ss.parent \cup {new} |->
                        IF c = new THEN current ELSE ss.parent[c]]
    IN  IF ~_is_valid_position(new) THEN ss
        ELSE IF new \in ss.closed_set /\ tentative_g_cost >= ss.g[new] THEN ss
        ELSE IF new \notin DOMAIN ss.g \/ tentative_g_cost < ss.g[new]
        THEN [ss EXCEPT !.g = g2, !.parent = parent2,
                        !.open_set = IF new \in SeqToSet(ss.open_set)
                                     THEN ss.open_set
                                     ELSE heappush(g2, goal, ss.open_set, new)]
        ELSE ss

\* one pass of the loop of lines 103-137 for the offset d.  ss is the search:
\*   open_set  the heap list,   closed_set  the closed cells,
\*   g         g_cost of the nodes whose g_cost is finite,
\*   parent    parent of the nodes that have one
Relax(collision_map, goal, ss, current, d) ==
    LET new == <<current[1] + d[1], current[2] + d[2]>>
        tentative_g_cost == ss.g[current] + move_cost(d)
        g2 == [c \in DOMAIN ss.g \cup {new} |->
                   IF c = new THEN tentative_g_cost ELSE ss.g[c]]
        parent2 == [c \in DOMAIN ss.parent \cup {new} |->
                        IF c = new THEN current ELSE ss.parent[c]]
    IN  IF ~_is_valid_position(new) THEN ss
        ELSE IF new \notin collision_map THEN ss
        ELSE IF new \in ss.closed_set /\ tentative_g_cost >= ss.g[new] THEN ss
        ELSE IF new \notin DOMAIN ss.g \/ tentative_g_cost < ss.g[new]
        THEN [ss EXCEPT !.g = g2, !.parent = parent2,
                        !.open_set = IF new \in SeqToSet(ss.open_set)
                                     THEN ss.open_set
                                     ELSE heappush(g2, goal, ss.open_set, new)]
        ELSE ss

\* the for loop of lines 103-137 from the i-th offset on; the search reached
\* so far is computed once (before) and handed on
RECURSIVE RelaxAll(_, _, _, _, _, _)
RelaxAll(collision_map, goal, ss, current, neighbors, i) ==
    IF i > Len(neighbors) THEN ss
    ELSE CHOOSE after \in
             { RelaxAll(collision_map, goal,
                        Relax(collision_map, goal, before, current, neighbors[i]),
                        current, neighbors, i + 1) : before \in {ss} } : TRUE

\* the while loop of lines 92-140
RECURSIVE SearchLoop(_, _, _)
SearchLoop(collision_map, goal, ss) ==
    IF ss.open_set = << >> THEN << >>
    ELSE LET popped == heappop(ss.g, goal, ss.open_set)
             current == popped.item
         IN  IF current = goal THEN _reconstruct_path(ss.parent, current)
             ELSE SearchLoop(collision_map, goal,
                      RelaxAll(collision_map, goal,
                               [ss EXCEPT !.open_set = popped.heap,
                                          !.closed_set = @ \cup {current}],
                               current, _get_neighbors, 1))

\* find_path without the validation of lines 74-79
find_path_unvalidated(collision_map, start, goal) ==
    SearchLoop(collision_map, goal,
               [open_set |-> <<start>>, closed_set |-> {},
                g |-> [c \in {start} |-> 0],
                parent |-> [c \in {} |-> c]])

\* find_path(start, goal) on a PathFinder built over collision_map (the set of
\* cells whose entry is True)
find_path(collision_map, start, goal) ==
    IF ~_is_valid_position(start) THEN << >>
    ELSE IF ~_is_valid_position(goal) THEN << >>
    ELSE SearchLoop(collision_map, goal,
                    [open_set |-> <<start>>, closed_set |-> {},
                     g |-> [c \in {start} |-> 0],
                     parent |-> [c \in {} |-> c]])

\* search before any find_path call
NoSearch ==
    [op |-> "none", collision_map |-> {}, start |-> <<0, 0>>, goal |-> <<0, 0>>,
     path |-> << >>]

PfIdle == search = NoSearch

\* collision maps: every cell walkable; a wall splitting the map; the wall
\* with a gap in its last row; a corner cell cut off from the rest; and the
\* maps with any set of blocked cells among (1,1), (2,1) and (1,2)
OpenMap == Cells

WallMap == { c \in Cells : c[1] # 1 }

GapMap == WallMap \cup { <<1, GridSide - 1>> }

CornerMap == Cells \ { <<GridSide - 2, GridSide - 1>>, <<GridSide - 1, GridSide - 2>> }

WindowMaps == { Cells \ blocked : blocked \in SUBSET { <<1, 1>>, <<1, 2>> } }

\* two blocked cells east of the start row and one in the bottom row
DetourMap == Cells \ { <<4, 3>>, <<4, 4>>, <<1, 5>> }

CollisionMaps == {OpenMap, WallMap, GapMap, CornerMap, DetourMap} \cup WindowMaps

\* the MapLocations passed to find_path: every cell and one position beyond
\* each edge of the map
Locations ==
    Cells \cup { <<-1, 0>>, <<0, -1>>, <<GridSide, 0>>, <<0, GridSide>> }

\* the starts searched from: the two western columns and the positions
\* beyond the edges
StartLocations == { c \in Cells : c[1] <= 1 } \cup (Locations \ Cells)

\* PathFinder(collision_map).find_path(start, goal); the search keeps nothing
\* from one call to the next (open_set, closed_set and all_nodes are locals)
FindPath ==
    /\ search = NoSearch
    /\ \E collision_map \in CollisionMaps, start \in StartLocations,
          goal \in Locations :
           search' = [op |-> "find_path", collision_map |-> collision_map,
                      start |-> start, goal |-> goal,
                      path |-> find_path(collision_map, start, goal)]
    /\ UNCHANGED notPf

\* the caller drops the list returned
DropPath ==
    /\ search # NoSearch
    /\ search' = NoSearch
    /\ UNCHANGED notPf

(***************************************************************************)
(* ai/pathfinding.py: find_path, one pass of its while loop at a time      *)
(***************************************************************************)
\* no find_path call in progress: no locals yet
NoRun ==
    [pc |-> "idle", collision_map |-> {}, start |-> <<0, 0>>,
     goal |-> <<0, 0>>,
     ss |-> [open_set |-> << >>, closed_set |-> {}, g |-> << >>,
             parent |-> << >>],
     path |-> << >>]

RunIdle == run = NoRun

\* lines 73-90: the call, its validation and the start node
SearchBegin ==
    /\ run.pc = "idle"
    /\ \E collision_map \in CollisionMaps, start \in StartLocations,
          goal \in Locations :
           run' = IF ~_is_valid_position(start) \/ ~_is_valid_position(goal)
                  THEN [NoRun EXCEPT !.pc = "returned",
                                     !.collision_map = collision_map,
                                     !.start = start, !.goal = goal]
                  ELSE [pc |-> "while", collision_map |-> collision_map,
                        start |-> start, goal |-> goal,
                        ss |-> [open_set |-> <<start>>, closed_set |-> {},
                                g |-> [c \in {start} |-> 0],
                                parent |-> [c \in {} |-> c]],
                        path |-> << >>]
    /\ UNCHANGED notSearch

\* one pass of the while loop, lines 92-137, or its end, lines 139-140
SearchPass ==
    /\ run.pc = "while"
    /\ IF run.ss.open_set = << >>
       THEN run' = [run EXCEPT !.pc = "returned"]
       ELSE \E popped \in {heappop(run.ss.g, run.goal, run.ss.open_set)} :
            \E current \in {popped.item} :
                IF current = run.goal
                THEN run' = [run EXCEPT
                                 !.pc = "returned",
                                 !.ss.open_set = popped.heap,
                                 !.path = _reconstruct_path(run.ss.parent, current)]
                ELSE \E closed \in {[run.ss EXCEPT
                                         !.open_set = popped.heap,
                                         !.closed_set = @ \cup {current}]} :
                         run' = [run EXCEPT
                                     !.ss = RelaxAll(run.collision_map, run.goal,
                                                closed, current,
                                                _get_neighbors, 1)]
    /\ UNCHANGED notSearch

\* the caller drops the list returned
SearchReturn ==
    /\ run.pc = "returned"
    /\ run' = NoRun
    /\ UNCHANGED notSearch

(***************************************************************************)
(* crew/agents/crew_navigation_agent.py and crew_menu_agent.py: the        *)
(* priority queues of targets and requests                                 *)
(***************************************************************************)
\* how many targets and requests are added in all
MaxAdded == 4

\* NavigationTarget.priority, MenuRequest.priority
Priorities == {0, 1, 2}

\* current_target / current_request None
NoEntry == [name |-> 0, priority |-> 0]

QueuesInit ==
    /\ navigation = [current_target |-> NoEntry, target_queue |-> << >>]
    /\ menu = [current_request |-> NoEntry, request_queue |-> << >>]
    /\ added = 0

\* add_target inserting before the entries of equal priority
add_target_before_equals(target_queue, target) ==
    LET lower == { i \in 1..Len(target_queue) :
                       target.priority >= target_queue[i].priority }
        insert_idx == IF lower = {} THEN Len(target_queue)
                      ELSE (CHOOSE i \in lower : \A j \in lower : i <= j) - 1
    IN  SubSeq(target_queue, 1, insert_idx) \o <<target>>
            \o SubSeq(target_queue, insert_idx + 1, Len(target_queue))

\* add_target, lines 80-86: the loop stops at the first entry of lower
\* priority and the target is inserted there, or at the end
add_target(target_queue, target) ==
    LET lower == { i \in 1..Len(target_queue) :
                       target.priority > target_queue[i].priority }
        insert_idx == IF lower = {} THEN Len(target_queue)
                      ELSE (CHOOSE i \in lower : \A j \in lower : i <= j) - 1
    IN  SubSeq(target_queue, 1, insert_idx) \o <<target>>
            \o SubSeq(target_queue, insert_idx + 1, Len(target_queue))

\* add_request, lines 80-86 of crew_menu_agent.py
add_request(request_queue, request) ==
    LET lower == { i \in 1..Len(request_queue) :
                       request.priority > request_queue[i].priority }
        insert_idx == IF lower = {} THEN Len(request_queue)
                      ELSE (CHOOSE i \in lower : \A j \in lower : i <= j) - 1
    IN  SubSeq(request_queue, 1, insert_idx) \o <<request>>
            \o SubSeq(request_queue, insert_idx + 1, Len(request_queue))

\* add_target(NavigationTarget(name, x, y, map_id, priority)); the targets
\* and requests are named 1, 2, ... in the order they are added
AddTarget(priority) ==
    /\ added < MaxAdded
    /\ navigation' = [navigation EXCEPT
                          !.target_queue =
                              add_target(@, [name |-> added + 1,
                                             priority |-> priority])]
    /\ added' = added + 1
    /\ UNCHANGED menu
    /\ UNCHANGED notQueues

\* clear_targets()
ClearTargets ==
    /\ navigation' = [current_target |-> NoEntry, target_queue |-> << >>]
    /\ UNCHANGED <<menu, added>>
    /\ UNCHANGED notQueues

\* CrewNavigationAgent.analyze_state(state); overworld is
\* state.mode == GameMode.OVERWORLD
NavigationAnalyzeState(overworld) ==
    /\ navigation' =
           IF ~overworld THEN navigation
           ELSE IF navigation.current_target # NoEntry THEN navigation
           ELSE IF navigation.target_queue # << >>
           THEN [current_target |-> Head(navigation.target_queue),
                 target_queue |-> Tail(navigation.target_queue)]
           ELSE navigation
    /\ UNCHANGED <<menu, added>>
    /\ UNCHANGED notQueues

\* the target is given up: reached in navigate (line 155) or dropped by
\* handle_error (line 173)
TargetDone ==
    /\ navigation.current_target # NoEntry
    /\ navigation' = [navigation EXCEPT !.current_target = NoEntry]
    /\ UNCHANGED <<menu, added>>
    /\ UNCHANGED notQueues

\* add_request(MenuRequest(action, target, priority))
AddRequest(priority) ==
    /\ added < MaxAdded
    /\ menu' = [menu EXCEPT
                    !.request_queue =
                        add_request(@, [name |-> added + 1,
                                        priority |-> priority])]
    /\ added' = added + 1
    /\ UNCHANGED navigation
    /\ UNCHANGED notQueues

\* clear_requests()
ClearRequests ==
    /\ menu' = [current_request |-> NoEntry, request_queue |-> << >>]
    /\ UNCHANGED <<navigation, added>>
    /\ UNCHANGED notQueues

\* CrewMenuAgent.analyze_state(screen_state, game_state); can_handle_menu is
\* the core agent's can_handle answer
MenuAnalyzeState(can_handle_menu) ==
    /\ menu' =
           IF ~can_handle_menu THEN menu
           ELSE IF menu.current_request # NoEntry THEN menu
           ELSE IF menu.request_queue # << >>
           THEN [current_request |-> Head(menu.request_queue),
                 request_queue |-> Tail(menu.request_queue)]
           ELSE menu
    /\ UNCHANGED <<navigation, added>>
    /\ UNCHANGED notQueues

\* the request is given up: no commands generated in handle_menu (line 157)
\* or handle_error (line 182)
RequestDone ==
    /\ menu.current_request # NoEntry
    /\ menu' = [menu EXCEPT !.current_request = NoEntry]
    /\ UNCHANGED <<navigation, added>>
    /\ UNCHANGED notQueues

(***************************************************************************)
(* utils/command_queue.py: CommandQueue                                    *)
(***************************************************************************)
\* how many commands are added in all
MaxCommands == 4

\* GameCommand.command_type: the two that process_commands knows and one it
\* does not
CommandTypes == {"button_press", "wait", "other"}

\* __init__; pc, queued and attempts follow a process_commands call: where it
\* is, what the queue held when it was called, and the commands it has popped
\* so far, each with what became of it
CommandsInit ==
    command_queue = [commands |-> << >>, created |-> 0, pc |-> "idle",
                     queued |-> << >>, attempts |-> << >>]

\* the state between two calls
Between(q) == [q EXCEPT !.pc = "idle", !.queued = << >>, !.attempts = << >>]

\* the pass of the loop with the exception leaving process_commands
process_commands_propagating(q, raises) ==
    LET command == Head(q.commands)
    IN  [q EXCEPT !.commands = Tail(@),
                  !.attempts = Append(@, [command |-> command,
                                          outcome |-> IF raises THEN "raised"
                                                      ELSE "executed"]),
                  !.pc = IF raises THEN "done" ELSE @]

\* one pass of the while loop of process_commands: pop(0), the try block and
\* the except clause
process_commands(q, raises) ==
    LET command == Head(q.commands)
    IN  [q EXCEPT !.commands = Tail(@),
                  !.attempts = Append(@, [command |-> command,
                                          outcome |-> IF raises THEN "logged"
                                                      ELSE "executed"])]

\* add_command(GameCommand(command_type, args, delay)); the commands are named
\* 1, 2, ... in the order they are created
AddCommand(command_type) ==
    /\ command_queue.pc # "while"
    /\ command_queue.created < MaxCommands
    /\ command_queue' =
           [Between(command_queue) EXCEPT
                !.commands = Append(@, [name |-> command_queue.created + 1,
                                        command_type |-> command_type]),
                !.created = @ + 1]
    /\ UNCHANGED notCommands

\* add_commands([first, second])
AddCommands(first, second) ==
    /\ command_queue.pc # "while"
    /\ command_queue.created + 2 <= MaxCommands
    /\ command_queue' =
           [Between(command_queue) EXCEPT
                !.commands = @ \o <<[name |-> command_queue.created + 1,
                                     command_type |-> first],
                                    [name |-> command_queue.created + 2,
                                     command_type |-> second]>>,
                !.created = @ + 2]
    /\ UNCHANGED notCommands

\* clear()
Clear ==
    /\ command_queue.pc # "while"
    /\ command_queue' = [Between(command_queue) EXCEPT !.commands = << >>]
    /\ UNCHANGED notCommands

\* process_commands(emulator) is called
ProcessCommandsCall ==
    /\ command_queue.pc # "while"
    /\ command_queue' = [command_queue EXCEPT
                             !.pc = "while",
                             !.queued = command_queue.commands,
                             !.attempts = << >>]
    /\ UNCHANGED notCommands

\* a pass of the loop; the body raises when the emulator does, when args is
\* no dict, when a wait has a negative duration or when delay is no number
ProcessCommandsPass(raises) ==
    /\ command_queue.pc = "while"
    /\ command_queue.commands # << >>
    /\ command_queue' = process_commands(command_queue, raises)
    /\ UNCHANGED notCommands

\* is_empty() ends the loop
ProcessCommandsReturn ==
    /\ command_queue.pc = "while"
    /\ command_queue.commands = << >>
    /\ command_queue' = [command_queue EXCEPT !.pc = "done"]
    /\ UNCHANGED notCommands

(***************************************************************************)
(* Battle decision                                                         *)
(***************************************************************************)
NoDecision == [op |-> "none"]

BattleIdle == decision = NoDecision

\* the caller is done with the answer
DropDecision ==
    /\ decision # NoDecision
    /\ decision' = NoDecision
    /\ UNCHANGED notBattle

(***************************************************************************)
(* ai/battle_agent.py: BattleAgent.analyze_state                           *)
(***************************************************************************)
\* longest party
MaxParty == 2

\* BattleStrategy.switch_threshold (0.3), in hundredths
switch_threshold == 30

\* hp / max_hp <= switch_threshold and hp / max_hp > switch_threshold, on
\* integers
AtOrBelowThreshold(p) == p.hp * 100 <= switch_threshold * p.max_hp

AboveThreshold(p) == p.hp * 100 > switch_threshold * p.max_hp

\* Pokemon.is_fainted()
is_fainted(p) == p.hp <= 0

\* hp and max_hp of a Pokemon: fainted, below the threshold, at the
\* threshold, just above it, at full health; max_hp is a plain int field
\* (emulator/game_state.py line 25) and can be 0
Health ==
    { [hp |-> h, max_hp |-> 10] : h \in {0, 1, 3, 4, 10} }
        \cup { [hp |-> 1, max_hp |-> 4] }
        \cup { [hp |-> h, max_hp |-> 0] : h \in {0, 1} }

\* Pokemon.moves of the active Pokemon: a list of move names
MoveLists == { << >>, <<"tackle">> }

Parties == UNION { [1..n -> Health] : n \in 0..MaxParty }

\* what analyze_state reads of the state: whether it is a battle with a
\* BattleState, whether both Pokemon are there, is_wild_battle, the active
\* Pokemon and the player's party
BattleInputs ==
    [battle : BOOLEAN, pokemon : BOOLEAN, is_wild_battle : BOOLEAN,
     active : Health, moves : MoveLists, party : Parties]

\* an Optional[int] index that is None
NoIndex == -1

\* AgentAction(action_type, parameters, priority), the parameter being the
\* target_index or move_index; no action is action_type None
NoAction == [action_type |-> None, target |-> NoIndex, priority |-> 0]

AgentAction(action_type, target, priority) ==
    [action_type |-> action_type, target |-> target, priority |-> priority]

\* the exception leaving analyze_state in place of a return value
ZeroDivisionError ==
    [action_type |-> "ZeroDivisionError", target |-> NoIndex, priority |-> 0]

\* hp / max_hp raises ZeroDivisionError when max_hp is 0
DivisionRaises(p) == p.max_hp = 0

\* _should_catch_pokemon(opponent)
_should_catch_pokemon == TRUE

\* any(p for p in party if not p.is_fainted() and p.hp / p.max_hp >
\* switch_threshold), lines 157-159, from member i on: the members are
\* tested in order, `and` short-circuits, the first hit ends the scan, and a
\* division by zero ends it with the exception
RECURSIVE AnyHealthy(_, _)
AnyHealthy(party, i) ==
    IF i > Len(party) THEN "False"
    ELSE IF is_fainted(party[i]) THEN AnyHealthy(party, i + 1)
    ELSE IF DivisionRaises(party[i]) THEN "raise"
    ELSE IF AboveThreshold(party[i]) THEN "True"
    ELSE AnyHealthy(party, i + 1)

\* _has_healthy_pokemon(state): "True", "False" or "raise"
_has_healthy_pokemon(state) ==
    IF state.party = << >> THEN "False" ELSE AnyHealthy(state.party, 1)

\* _choose_switch_target(state, opponent): line 172 returns None
_choose_switch_target(state) == NoIndex

\* _choose_best_move(active, opponent)
_choose_best_move(state) == IF state.moves # << >> THEN 0 ELSE NoIndex

\* analyze_state(state) under the strategy's catch_wild
analyze_state(state, catch_wild) ==
    IF ~state.battle THEN NoAction
    ELSE IF ~state.pokemon THEN NoAction
    ELSE IF catch_wild /\ state.is_wild_battle /\ _should_catch_pokemon
    THEN AgentAction("catch", NoIndex, 3)
    ELSE IF DivisionRaises(state.active) THEN ZeroDivisionError
    ELSE IF /\ AtOrBelowThreshold(state.active)
            /\ _has_healthy_pokemon(state) = "raise"
    THEN ZeroDivisionError
    ELSE IF /\ AtOrBelowThreshold(state.active)
            /\ _has_healthy_pokemon(state) = "True"
            /\ _choose_switch_target(state) # NoIndex
    THEN AgentAction("switch", _choose_switch_target(state), 2)
    ELSE IF _choose_best_move(state) # NoIndex
    THEN AgentAction("attack", _choose_best_move(state), 1)
    ELSE IF state.is_wild_battle THEN AgentAction("run", NoIndex, 0)
    ELSE NoAction

\* BattleAgent(emulator, BattleStrategy(catch_wild = ...)).analyze_state(state)
AnalyzeState ==
    /\ decision = NoDecision
    /\ \E state \in BattleInputs, catch_wild \in BOOLEAN :
           decision' = [op |-> "analyze_state", state |-> state,
                        catch_wild |-> catch_wild,
                        action |-> analyze_state(state, catch_wild)]
    /\ UNCHANGED notBattle

(***************************************************************************)
(* agents/battle_agent.py: move scoring and selection                      *)
(***************************************************************************)
\* longest list of available moves
MaxMoves == 2

\* a move of current_battle["available_moves"]
Moves ==
    [power : {0, 40, 100}, type : {"FIRE", "GRASS", "NORMAL"}, pp : {0, 10},
     category : {"PHYSICAL", "STATUS"}]

AvailableMoves == UNION { [1..n -> Moves] : n \in 0..MaxMoves }

\* current_battle["opponent_pokemon"]["type"]: lists of at most two types
OpponentTypes ==
    { << >>, <<"WATER">>, <<"GRASS">>, <<"WATER", "GRASS">>, <<"WATER", "WATER">> }

\* type_chart of _get_type_effectiveness (lines 199-212).  Every factor is a
\* power of two, so a factor is kept as its exponent: 1 for 2.0, -1 for 0.5,
\* 0 for a pair that is not listed (line 220 skips it)
type_chart(move_type, def_type) ==
    CASE move_type = "FIRE"  /\ def_type = "GRASS" -> 1
      [] move_type = "FIRE"  /\ def_type = "WATER" -> -1
      [] move_type = "WATER" /\ def_type = "FIRE"  -> 1
      [] move_type = "WATER" /\ def_type = "GRASS" -> -1
      [] move_type = "GRASS" /\ def_type = "WATER" -> 1
      [] move_type = "GRASS" /\ def_type = "FIRE"  -> -1
      [] OTHER -> 0

\* _get_type_effectiveness(move_type, defender_types): the exponent e of the
\* multiplier 2^e, the product of the factors of the defender's types
RECURSIVE _get_type_effectiveness(_, _)
_get_type_effectiveness(move_type, defender_types) ==
    IF defender_types = << >> THEN 0
    ELSE type_chart(move_type, Head(defender_types))
           + _get_type_effectiveness(move_type, Tail(defender_types))

\* a score that leaves the multiplier out
_calculate_move_score_power(move, opponent_types) == move["power"] * 2 ^ 2

\* _calculate_move_score(move) = power * multiplier, in quarters (the
\* multiplier of a defender with at most two types is a multiple of 1/4)
_calculate_move_score(move, opponent_types) ==
    move["power"] * 2 ^ (_get_type_effectiveness(move["type"], opponent_types) + 2)

\* max(move_scores, key = score) scanning positions i..Len: the position kept
\* changes only for a strictly greater score
RECURSIVE MaxFrom(_, _, _)
MaxFrom(move_scores, i, best) ==
    IF i > Len(move_scores) THEN best
    ELSE MaxFrom(move_scores, i + 1,
                 IF move_scores[i] > move_scores[best] THEN i ELSE best)

\* the scan keeping the last of the greatest scores
_get_best_move_last(available_moves, opponent_types) ==
    LET move_scores == [i \in 1..Len(available_moves) |->
                            _calculate_move_score(available_moves[i], opponent_types)]
    IN  IF available_moves = << >> THEN NoIndex
        ELSE (CHOOSE i \in 1..Len(move_scores) :
                  /\ \A j \in 1..Len(move_scores) : move_scores[j] <= move_scores[i]
                  /\ \A j \in (i + 1)..Len(move_scores) :
                         move_scores[j] < move_scores[i]) - 1

\* _get_best_move(): the index, counted from 0, or None
_get_best_move(available_moves, opponent_types) ==
    LET move_scores == [i \in 1..Len(available_moves) |->
                            _calculate_move_score(available_moves[i], opponent_types)]
    IN  IF available_moves = << >> THEN NoIndex
        ELSE MaxFrom(move_scores, 1, 1) - 1

\* _get_best_move() with current_battle holding the opponent and the moves
GetBestMove ==
    /\ decision = NoDecision
    /\ \E available_moves \in AvailableMoves, opponent_types \in OpponentTypes :
           decision' = [op |-> "_get_best_move",
                        available_moves |-> available_moves,
                        opponent_types |-> opponent_types,
                        move_scores |-> [i \in 1..Len(available_moves) |->
                            _calculate_move_score(available_moves[i], opponent_types)],
                        best |-> _get_best_move(available_moves, opponent_types)]
    /\ UNCHANGED notBattle

\* what agents BattleAgent.analyze_state reads of the state: no BattleState,
\* or one with the hp_percent of the active Pokemon (below and at the 20 of
\* _should_switch), the moves and the opponent's types
AgentBattles ==
    { [battle |-> FALSE, hp_percent |-> 100, available_moves |-> << >>,
       opponent_types |-> << >>] }
        \cup [battle : {TRUE}, hp_percent : {19, 20},
              available_moves : AvailableMoves, opponent_types : OpponentTypes]

\* _should_switch(): hp_percent < 20
_should_switch(battle) == battle.hp_percent < 20

\* _get_best_switch_target(): line 155 returns 0
_get_best_switch_target == 0

\* the dict analyze_state returns, action None standing for no dict
BattleAction(action, index) == [action |-> action, index |-> index]

\* agents BattleAgent.analyze_state(state)
agents_analyze_state(battle) ==
    IF ~battle.battle THEN BattleAction(None, NoIndex)
    ELSE IF _should_switch(battle)
    THEN BattleAction("switch", _get_best_switch_target)
    ELSE IF _get_best_move(battle.available_moves, battle.opponent_types) # NoIndex
    THEN BattleAction("move",
                      _get_best_move(battle.available_moves, battle.opponent_types))
    ELSE BattleAction(None, NoIndex)

\* agents BattleAgent.analyze_state(state); current_battle is rebuilt from the
\* state by every call
AgentsAnalyzeState ==
    /\ decision = NoDecision
    /\ \E battle \in AgentBattles :
           decision' = [op |-> "agents_analyze_state",
                        battle |-> battle,
                        move_scores |-> [i \in 1..Len(battle.available_moves) |->
                            _calculate_move_score(battle.available_moves[i],
                                                  battle.opponent_types)],
                        action |-> agents_analyze_state(battle)]
    /\ UNCHANGED notBattle

(***************************************************************************)
(* Game state manager (game_state/manager.py)                              *)
(***************************************************************************)
\* self.max_history: 1000 in __init__, explored at a small length
MaxHistory == 2

\* update calls explored after construction
MaxUpdates == 4

\* the states get_game_state returns here
EmulatorStates ==
    { s \in Observed : s.current_map = 0 /\ s.mode \in {"overworld", "battle", "menu"} }

\* __init__: no current state, an empty history
GsmInit ==
    /\ state_manager = [current_state |-> NoState, state_history |-> << >>]
    /\ emulator = [observed |-> << >>, op |-> "none", failed |-> FALSE,
                   outcome |-> "none"]

\* _update_history that never drops a state
_update_history_unbounded(history, state) == Append(history, state)

\* _update_history(state): append, then pop(0) when longer than max_history
_update_history(history, state) ==
    LET appended == Append(history, state)
    IN  IF Len(appended) > MaxHistory THEN Tail(appended) ELSE appended

\* GameStateManager.update() when get_game_state returns new_state
GsmUpdate(new_state) ==
    /\ Len(emulator.observed) < MaxUpdates
    /\ state_manager' =
           [current_state |-> new_state,
            state_history |-> _update_history(state_manager.state_history, new_state)]
    /\ emulator' = [observed |-> Append(emulator.observed, new_state),
                    op |-> "update", failed |-> FALSE, outcome |-> "returned"]
    /\ UNCHANGED notGsm

\* GameStateManager.update() when get_game_state raises: line 66 is not inside
\* a try block, the exception leaves update
GsmUpdateEmulatorFails ==
    /\ state_manager' = state_manager
    /\ emulator' = [emulator EXCEPT !.op = "update", !.failed = TRUE,
                                    !.outcome = "raised"]
    /\ UNCHANGED notGsm

(***************************************************************************)
(* Agent manager (ai/agent_manager.py)                                     *)
(***************************************************************************)
\* GameMode members that key mode_agents
ManagerModes == {"BATTLE", "OVERWORLD", "MENU", "DIALOG"}

\* the Agent objects a caller holds: the two built by __post_init__
ManagerAgents == {"battle_agent", "navigation_agent"}

\* what analyze_state of an agent does in one tick: returns None, returns an
\* AgentAction of this priority, or raises
Offers ==
    [kind : {"None", "raise"}, priority : {0}]
        \cup [kind : {"action"}, priority : {0, 1, 2}]

\* the mode-based priority bonus of update
PriorityBonus(mode) ==
    CASE mode = "BATTLE" -> PriorityBattle
      [] mode = "OVERWORLD" -> PriorityNavigation
      [] mode = "MENU" -> PriorityMenu
      [] mode = "DIALOG" -> PriorityDialog

\* __post_init__: the mode -> agents map
MgrInit ==
    /\ mode_agents = [m \in ManagerModes |->
                         CASE m = "BATTLE" -> <<"battle_agent">>
                           [] m = "OVERWORLD" -> <<"navigation_agent">>
                           [] OTHER -> << >>]
    /\ executed = [op |-> "none"]

Registered(mode, agent) ==
    \E i \in 1..Len(mode_agents[mode]) : mode_agents[mode][i] = agent

\* list.remove(x): the list without its first x
Remove(list, x) ==
    LET i == CHOOSE j \in 1..Len(list) :
                 list[j] = x /\ \A k \in 1..(j - 1) : list[k] # x
    IN  SubSeq(list, 1, i - 1) \o SubSeq(list, i + 1, Len(list))

\* list.sort(key = priority, reverse = True) on (agent, action) pairs: a stable
\* sort, so pairs of equal priority keep the order they were appended in.
\* InsertDescending puts one pair into a sorted list behind every pair whose
\* priority is at least its own.
InsertDescending_before_equals(sorted, pair) ==
    LET ahead == { i \in 1..Len(sorted) : sorted[i].priority > pair.priority }
    IN  SubSeq(sorted, 1, Cardinality(ahead)) \o <<pair>>
            \o SubSeq(sorted, Cardinality(ahead) + 1, Len(sorted))

InsertDescending(sorted, pair) ==
    LET ahead == { i \in 1..Len(sorted) : sorted[i].priority >= pair.priority }
    IN  SubSeq(sorted, 1, Cardinality(ahead)) \o <<pair>>
            \o SubSeq(sorted, Cardinality(ahead) + 1, Len(sorted))

RECURSIVE SortedByPriority(_)
SortedByPriority(actions) ==
    IF actions = << >> THEN << >>
    ELSE InsertDescending(SortedByPriority(SubSeq(actions, 1, Len(actions) - 1)),
                          actions[Len(actions)])

\* the collection loop of update: the (agent, action) pairs of the agents
\* whose analyze_state returned an action, with the mode bonus added
RECURSIVE CollectActions(_, _, _)
CollectActions(mode, active_agents, offers) ==
    IF active_agents = << >> THEN << >>
    ELSE LET agent == Head(active_agents)
             rest == CollectActions(mode, Tail(active_agents), offers)
         IN  IF offers[agent].kind = "action"
             THEN <<[agent |-> agent,
                     priority |-> offers[agent].priority + PriorityBonus(mode)]>> \o rest
             ELSE rest

\* AgentManager.update(state): the answer, and the pair executed if any
AgentManager_update(mode, offers, execution) ==
    LET active_agents == mode_agents[mode]
        raised == \E i \in 1..Len(active_agents) : offers[active_agents[i]].kind = "raise"
        actions == SortedByPriority(CollectActions(mode, active_agents, offers))
    IN  [op |-> "update", mode |-> mode, offers |-> offers,
         active_agents |-> active_agents,
         actions |-> IF raised THEN << >> ELSE actions,
         ran |-> ~raised /\ actions # << >>,
         result |-> ~raised /\ actions # << >> /\ execution = "True"]

\* AgentManager.register_agent(mode, agent)
ManagerRegisterAgent(mode, agent) ==
    /\ executed.op = "none"
    /\ mode_agents' = IF Registered(mode, agent) THEN mode_agents
                      ELSE [mode_agents EXCEPT ![mode] = Append(@, agent)]
    /\ UNCHANGED executed
    /\ UNCHANGED notMgr

\* AgentManager.unregister_agent(mode, agent)
ManagerUnregisterAgent(mode, agent) ==
    /\ executed.op = "none"
    /\ mode_agents' = IF Registered(mode, agent)
                      THEN [mode_agents EXCEPT ![mode] = Remove(@, agent)]
                      ELSE mode_agents
    /\ UNCHANGED executed
    /\ UNCHANGED notMgr

\* AgentManager.update(state)
ManagerUpdate ==
    /\ executed.op = "none"
    /\ \E mode \in ManagerModes, offers \in [ManagerAgents -> Offers],
          execution \in {"True", "False", "raise"} :
           executed' = AgentManager_update(mode, offers, execution)
    /\ UNCHANGED mode_agents
    /\ UNCHANGED notMgr

\* the caller is done with the answer
ManagerDrop ==
    /\ executed.op # "none"
    /\ executed' = [op |-> "none"]
    /\ UNCHANGED mode_agents
    /\ UNCHANGED notMgr

(***************************************************************************)
(* Specifications                                                          *)
(***************************************************************************)
Init ==
    /\ SchedInit
    /\ ArbInit
    /\ PfIdle
    /\ BattleIdle
    /\ MgrInit
    /\ WorkersIdle
    /\ GsmInit
    /\ RunIdle
    /\ QueuesInit
    /\ CommandsInit

Next ==
    \/ \E t \in Callable : CreateTask(t)
    \/ \E t \in Callable : CreateTaskFails(t)
    \/ \E t \in Callable, o \in BodyOutcomes :
           \E f \in FailAts(IF Raises(o) THEN {t} ELSE {}) : ExecuteTask(t, o, f)
    \/ \E plan \in Plans :
           \E f \in FailAts({t \in TaskNames : Raises(plan[t])}) :
               ExecuteAllTasks(plan, f)

Spec == Init /\ [][Next]_vars

\* the scheduler of the arbiter specifications: constructed and never called
SchedIdle ==
    /\ config = Construction(Pair, DefaultErrorConfig, TRUE)
    /\ tasks = {}
    /\ task_dependencies = << >>
    /\ completed_tasks = {}
    /\ task_errors = [t \in TaskNames |-> 0]
    /\ consecutive_failures = 0
    /\ call = NoCall

InitArbiter ==
    /\ SchedIdle
    /\ ArbInit
    /\ PfIdle
    /\ BattleIdle
    /\ MgrInit
    /\ WorkersIdle
    /\ GsmInit
    /\ RunIdle
    /\ QueuesInit
    /\ CommandsInit

NextArbiter ==
    \/ \E n \in AgentNames, b \in BOOLEAN : RegisterAgent(n, b)
    \/ \E n \in AgentNames : UnregisterAgent(n)
    \/ UpdateObservationRaises
    \/ \E s \in Observed, act \in {"True", "False", "raise"} : Update(s, act)

SpecArbiter == InitArbiter /\ [][NextArbiter]_vars

NextDetector ==
    \/ \E s \in GameStates : SeedLastState(s)
    \/ \E s \in GameStates : StateChanged(s)

SpecDetector == InitArbiter /\ [][NextDetector]_vars

\* two threads ticking; the states observed are those of map 0, every mode
NextWorkers ==
    \/ \E n \in {"navigation", "menu"} : RegisterAgent(n, FALSE)
    \/ \E w \in Workers, s \in { o \in Observed : o.current_map = 0 } :
           WorkerObserves(w, s)
    \/ \E w \in Workers : WorkerReads(w)
    \/ \E w \in Workers : WorkerArbitrates(w)
    \/ \E w \in Workers : WorkerActs(w)

SpecWorkers == InitArbiter /\ [][NextWorkers]_vars

InitPathfinder ==
    /\ SchedIdle
    /\ ArbInit
    /\ PfIdle
    /\ BattleIdle
    /\ MgrInit
    /\ WorkersIdle
    /\ GsmInit
    /\ RunIdle
    /\ QueuesInit
    /\ CommandsInit

NextPathfinder ==
    \/ FindPath
    \/ DropPath

SpecPathfinder == InitPathfinder /\ [][NextPathfinder]_vars

NextSearch ==
    \/ SearchBegin
    \/ SearchPass
    \/ SearchReturn

\* a find_path call that has started goes on running: nothing in the loop
\* waits for anything
SpecSearch == InitPathfinder /\ [][NextSearch]_vars /\ WF_vars(SearchPass)

NextQueues ==
    \/ \E p \in Priorities : AddTarget(p)
    \/ ClearTargets
    \/ \E b \in BOOLEAN : NavigationAnalyzeState(b)
    \/ TargetDone
    \/ \E p \in Priorities : AddRequest(p)
    \/ ClearRequests
    \/ \E b \in BOOLEAN : MenuAnalyzeState(b)
    \/ RequestDone

SpecQueues == InitPathfinder /\ [][NextQueues]_vars

NextCommands ==
    \/ \E t \in CommandTypes : AddCommand(t)
    \/ \E t1, t2 \in CommandTypes : AddCommands(t1, t2)
    \/ Clear
    \/ ProcessCommandsCall
    \/ \E raises \in BOOLEAN : ProcessCommandsPass(raises)
    \/ ProcessCommandsReturn

\* a call that has started goes on: press_button and sleep come back or raise
SpecCommands ==
    /\ InitPathfinder
    /\ [][NextCommands]_vars
    /\ WF_vars(\E raises \in BOOLEAN : ProcessCommandsPass(raises))
    /\ WF_vars(ProcessCommandsReturn)

NextBattle ==
    \/ AnalyzeState
    \/ DropDecision

SpecBattle == InitPathfinder /\ [][NextBattle]_vars

NextMoves ==
    \/ GetBestMove
    \/ AgentsAnalyzeState
    \/ DropDecision

SpecMoves == InitPathfinder /\ [][NextMoves]_vars

NextManager ==
    \/ \E m \in ManagerModes, a \in ManagerAgents : ManagerRegisterAgent(m, a)
    \/ \E m \in ManagerModes, a \in ManagerAgents : ManagerUnregisterAgent(m, a)
    \/ ManagerUpdate
    \/ ManagerDrop

SpecManager == InitPathfinder /\ [][NextManager]_vars

NextStateManager ==
    \/ \E s \in EmulatorStates : GsmUpdate(s)
    \/ GsmUpdateEmulatorFails

SpecStateManager == InitPathfinder /\ [][NextStateManager]_vars

(***************************************************************************)
(* Properties of the task scheduler (specification Spec)                   *)
(***************************************************************************)
Min(a, b) == IF a <= b THEN a ELSE b

Max(a, b) == IF a >= b THEN a ELSE b

Declared == TdKeys(task_dependencies)

Ready == get_ready_tasks(task_dependencies, completed_tasks)

\* the tasks that depend on task f, directly or through other tasks
RECURSIVE Downstream(_, _, _)
Downstream(td, S, n) ==
    IF n = 0 THEN S
    ELSE Downstream(td,
                    S \cup {t \in TdKeys(td) : TdGet(td, t).dependencies \cap S # {}},
                    n - 1)

DependentsOf(f) == Downstream(task_dependencies, {f}, Len(task_dependencies)) \ {f}

AlwaysFailingCall ==
    /\ call.op = "execute_task"
    /\ call.outcome = "raise_always"

\* C2 as stated: such a call runs the body exactly max_retries times
\* whatever the configuration, returns None and leaves the task uncompleted.
C2_ExactlyMaxRetries ==
    AlwaysFailingCall =>
        /\ call.nruns = config.error_config.max_retries
        /\ call.result = None
        /\ call.task \notin completed_tasks

\* the attempt at which the task's recovery action first fails
\* (max_retries when it never does)
RecoveryStop ==
    LET action == RecoveryFor(config.error_config.recovery_actions, call.task)
    IN  IF action = None THEN config.error_config.max_retries
        ELSE IF ~config.agents_ok THEN 1
        ELSE IF action = "reset_to_main" THEN 1
        ELSE IF action = "retreat" /\ call.fail_at # 0 THEN call.fail_at
        ELSE config.error_config.max_retries

\* the attempt at which consecutive_failures first exceeds the limit
FailureStop ==
    Max(1, config.error_config.max_consecutive_failures - call.cf_before + 1)

\* C2 amended: the body runs at most max_retries times; the call stops at the
\* first failure for which handle_error answers False (consecutive_failures
\* above max_consecutive_failures, or a recovery action that fails), so it
\* runs exactly max_retries times when neither happens earlier; it returns
\* None and adds nothing to completed_tasks.
C2_BoundedRetries ==
    AlwaysFailingCall =>
        /\ call.nruns =
               Min(config.error_config.max_retries, Min(FailureStop, RecoveryStop))
        /\ call.result = None
        /\ call.task \in completed_tasks => call.rerun

\* C2 witness: an always-failing body was run the default three times
C2_Witness ==
    /\ AlwaysFailingCall
    /\ config.error_config = DefaultErrorConfig
    /\ call.nruns = DefaultMaxRetries
    /\ call.task \notin completed_tasks

\* an execute_all_tasks run in which a task's body raised on every attempt
PermanentFailure ==
    /\ call.op = "execute_all_tasks"
    /\ call.failed # None
    /\ call.outcome = "raise_always"

\* C3 as stated: after a permanent failure every task that does not depend on
\* the failed one is completed in that run, and no dependent was executed.
C3_IndependentBranchesContinue ==
    PermanentFailure =>
        /\ \A t \in Declared \ ({call.failed} \cup DependentsOf(call.failed)) :
               t \in completed_tasks
        /\ call.ran \cap DependentsOf(call.failed) = {}

\* C3 amended: a permanent failure ends the run at once with False: the
\* failed task is the last one executed, so neither its dependents nor the
\* independent tasks that had not run yet are executed in that run.
C3_RunStopsAtFailure ==
    PermanentFailure =>
        /\ call.result = "False"
        /\ call.last = call.failed
        /\ call.failed \notin completed_tasks
        /\ call.ran \cap DependentsOf(call.failed) = {}
        /\ \A t \in call.ran \ {call.failed} : t \in completed_tasks

\* C3 witness: a run ended by a permanent failure left an independent task
\* unexecuted
C3_Witness ==
    /\ PermanentFailure
    /\ \E t \in Declared \ ({call.failed} \cup DependentsOf(call.failed)) :
           t \notin completed_tasks /\ t \notin call.ran

\* C4: execute_all_tasks returns True only if every task of the dependency
\* graph is in completed_tasks.
C4_TrueMeansAllCompleted ==
    (call.op = "execute_all_tasks" /\ call.result = "True")
        => /\ SeqToSet(config.graph.declared) \subseteq completed_tasks
           /\ Declared \subseteq completed_tasks

\* C5: no call runs the body of a task that is already in completed_tasks.
C5_NoRerun == ~call.rerun

(***************************************************************************)
(* Properties of the arbiter (specification SpecArbiter)                   *)
(***************************************************************************)
ObservingTick == tick.op = "update" /\ tick.observed

\* position of a registered agent in the agents dict
Position(name) == CHOOSE i \in 1..Len(agents) : agents[i] = name

C8_NoHandlerClearsActive ==
    (ObservingTick /\ tick.handlers = {})
        => /\ active_agent = None
           /\ tick.acted = None
           /\ tick.result = "False"

\* C9: a tick in which the observation or the acting agent raised returns
\* False to the caller, and the tick after it arbitrates as any other tick.
C9_ExceptionsSwallowed ==
    /\ (tick.op = "update" /\ tick.raised) => tick.result = "False"
    /\ tick.op = "update" => tick.result \in {"True", "False"}
    /\ (ObservingTick /\ tick.after_raise)
           => /\ tick.queried = agents
              /\ tick.acted = None <=> tick.handlers = {}

\* C9 witness: the tick after a raising tick returned True
C9_Witness ==
    /\ tick.op = "update"
    /\ tick.after_raise
    /\ tick.result = "True"

(***************************************************************************)
(* Properties of the state-change check (specification SpecDetector)       *)
(***************************************************************************)
CheckedAgainstPrevious == tick.op = "_state_changed" /\ tick.prev # NoState

C11_ModeOrMapChangeDetected ==
    (/\ CheckedAgainstPrevious
     /\ \/ tick.cur.mode # tick.prev.mode
        \/ tick.cur.current_map # tick.prev.current_map)
        => tick.result = "True"

(***************************************************************************)
(* Properties of the retained snapshot (specification SpecArbiter)         *)
(***************************************************************************)
\* C12: after every tick that observed a state, the first one included,
\* last_state equals the state observed in that tick.
C12_LastStateRetained ==
    ObservingTick => last_state = current_state

(***************************************************************************)
(* Properties of the pathfinder (specification SpecPathfinder)             *)
(***************************************************************************)
Searched == search.op = "find_path"

InBounds == _is_valid_position(search.start) /\ _is_valid_position(search.goal)

\* C13: on a collision map whose cells are all walkable, for in-bounds start
\* and goal, the path returned has exactly |dx| + |dy| + 1 nodes.
C13_OpenMapManhattan ==
    (Searched /\ search.collision_map = Cells /\ InBounds)
        => Len(search.path) =
               Abs(search.goal[1] - search.start[1])
             + Abs(search.goal[2] - search.start[2]) + 1

\* C13 witness: from (0,0) to (4,4) on an all-walkable map the path has 9 nodes
C13_Witness ==
    /\ Searched
    /\ search.collision_map = Cells
    /\ search.start = <<0, 0>>
    /\ search.goal = <<4, 4>>
    /\ Len(search.path) = 9

Step(a, b) == <<Abs(b[1] - a[1]), Abs(b[2] - a[2])>>

\* C14: in every path returned, consecutive nodes differ by exactly 1 in one
\* coordinate and by 0 in the other.
C14_CardinalSteps ==
    Searched =>
        \A i \in 1..(Len(search.path) - 1) :
            Step(search.path[i], search.path[i + 1]) \in {<<1, 0>>, <<0, 1>>}

\* C14 witness: a returned path that moves along both axes
C14_Witness ==
    /\ Searched
    /\ Len(search.path) >= 3
    /\ search.start[1] # search.goal[1]
    /\ search.start[2] # search.goal[2]
    /\ search.collision_map # Cells

\* the cells reached from the cells of S by cardinal steps that each enter a
\* walkable cell of the map
RECURSIVE Closure(_, _)
Closure(collision_map, S) ==
    LET more == { c \in collision_map :
                      \E a \in S : Step(a, c) \in {<<1, 0>>, <<0, 1>>} }
    IN  IF more \subseteq S THEN S ELSE Closure(collision_map, S \cup more)

\* a route of walkable cells joins start to goal: start is walkable and goal
\* is reached from it through walkable cells
WalkableRoute(collision_map, start, goal) ==
    /\ start \in collision_map
    /\ goal \in Closure(collision_map, {start})

\* C15 as stated: when no four-connected route of walkable cells joins start
\* to goal, the result is empty.
C15_NoWalkableRouteEmpty ==
    (/\ Searched
     /\ InBounds
     /\ ~WalkableRoute(search.collision_map, search.start, search.goal))
        => search.path = << >>

\* C15 as the search behaves: the result is empty exactly when the goal is not
\* reached from the start by cardinal steps that each enter a walkable cell;
\* the entry of the start cell itself is never read.
C15_UnreachableEmpty ==
    (Searched /\ InBounds)
        => (search.path = << >>
                <=> search.goal \notin Closure(search.collision_map, {search.start}))

\* C15 witness: start and goal are walkable, a wall lies between them and the
\* result is empty
C15_Witness ==
    /\ Searched
    /\ search.start \in search.collision_map
    /\ search.goal \in search.collision_map
    /\ search.goal \notin Closure(search.collision_map, {search.start})
    /\ search.path = << >>

\* C16: every non-empty path returned starts at start and ends at goal, and
\* for start = goal (in bounds) the result is the single-node path.
C16_EndsAtStartAndGoal ==
    Searched =>
        /\ search.path # << >>
               => /\ search.path[1] = search.start
                  /\ search.path[Len(search.path)] = search.goal
        /\ (InBounds /\ search.start = search.goal)
               => search.path = <<search.start>>

\* C16 witness: a path around blocked cells from start to a different goal
C16_Witness ==
    /\ Searched
    /\ search.start # search.goal
    /\ search.collision_map # Cells
    /\ Len(search.path) >
           Abs(search.goal[1] - search.start[1])
         + Abs(search.goal[2] - search.start[2]) + 1
    /\ search.path[1] = search.start
    /\ search.path[Len(search.path)] = search.goal

(***************************************************************************)
(* Properties of the battle decision (specification SpecBattle)            *)
(***************************************************************************)
Analyzed ==
    /\ decision.op = "analyze_state"
    /\ decision.state.battle
    /\ decision.state.pokemon

CatchApplies == decision.catch_wild /\ decision.state.is_wild_battle

\* C17: when Catch does not apply, the active Pokemon is at or below
\* switch_threshold and another party member is not fainted and above the
\* threshold, the decision is Switch.
C17_LowHpSwitches ==
    (/\ Analyzed
     /\ ~CatchApplies
     /\ AtOrBelowThreshold(decision.state.active)
     /\ \E i \in 1..Len(decision.state.party) :
            /\ ~is_fainted(decision.state.party[i])
            /\ AboveThreshold(decision.state.party[i]))
        => decision.action.action_type = "switch"

\* C31: analyze_state returns an action or None and never raises, for every
\* battle state, including an active Pokemon or a party member with
\* max_hp = 0, an empty party and a missing active or opponent Pokemon.
C31_DecisionNeverRaises ==
    decision.op = "analyze_state"
        => decision.action.action_type # "ZeroDivisionError"

(***************************************************************************)
(* Properties of the move selection (specification SpecMoves)              *)
(***************************************************************************)
Selected == decision.op = "_get_best_move"

MoveCount == Len(decision.available_moves)

\* the type multiplier of move i against the opponent, as the exponent of 2
Multiplier(i) ==
    _get_type_effectiveness(decision.available_moves[i]["type"],
                            decision.opponent_types)

EqualButForType(i, j) ==
    /\ decision.available_moves[i]["power"] = decision.available_moves[j]["power"]
    /\ decision.available_moves[i]["category"] = decision.available_moves[j]["category"]
    /\ Multiplier(i) = 1
    /\ Multiplier(j) = -1

\* C19 as stated: for every power, 0 included, the move with multiplier 2
\* scores strictly higher than the move with multiplier 0.5.
C19_SuperEffectiveScoresHigher ==
    Selected =>
        \A i, j \in 1..MoveCount :
            EqualButForType(i, j)
                => decision.move_scores[i] > decision.move_scores[j]

\* C19 for the scores computed: strictly higher when the common power is
\* positive, and both scores 0 when the power is 0.
C19_HigherForPositivePower ==
    Selected =>
        \A i, j \in 1..MoveCount :
            EqualButForType(i, j)
                => IF decision.available_moves[i]["power"] > 0
                   THEN decision.move_scores[i] > decision.move_scores[j]
                   ELSE decision.move_scores[i] = 0 /\ decision.move_scores[j] = 0

\* C19 witness: a super effective and a not very effective move of the same
\* positive power and category
C19_Witness ==
    /\ Selected
    /\ MoveCount = 2
    /\ EqualButForType(1, 2)
    /\ decision.available_moves[1]["power"] > 0
    /\ decision.move_scores[1] > decision.move_scores[2]

\* C20: a move with no remaining uses is scored zero and is not the move
\* selected.
C20_NoUsesLeftNeverChosen ==
    Selected =>
        \A i \in 1..MoveCount :
            decision.available_moves[i]["pp"] = 0
                => /\ decision.move_scores[i] = 0
                   /\ decision.best # i - 1

AgentsAnalyzed == decision.op = "agents_analyze_state" /\ decision.battle.battle

\* C21: when Switch does not apply and no available move scores above zero
\* (all scores zero, or no moves), the decision is not Attack: a battle that
\* is not known to be wild gets no decision.
C21_NoPositiveScoreNoAttack ==
    (/\ AgentsAnalyzed
     /\ ~_should_switch(decision.battle)
     /\ \A i \in 1..Len(decision.move_scores) : decision.move_scores[i] = 0)
        => decision.action.action = None

\* position of an agent in the registration order of a mode at the update
RegisteredAt(agent) ==
    CHOOSE i \in 1..Len(executed.active_agents) : executed.active_agents[i] = agent

OfferedAgents ==
    { a \in ManagerAgents :
          /\ \E i \in 1..Len(executed.active_agents) : executed.active_agents[i] = a
          /\ executed.offers[a].kind = "action" }

\* C22: the action AgentManager.update executes is, among the actions offered
\* in the tick by the agents registered for the mode, one of the highest
\* priority, and among equal priorities the one of the agent registered first.
C22_HighestPriorityThenEarliest ==
    (executed.op = "update" /\ executed.ran) =>
        /\ executed.actions[1].agent \in OfferedAgents
        /\ \A a \in OfferedAgents :
               \/ executed.offers[a].priority
                      < executed.offers[executed.actions[1].agent].priority
               \/ /\ executed.offers[a].priority
                      = executed.offers[executed.actions[1].agent].priority
                  /\ RegisteredAt(executed.actions[1].agent) <= RegisteredAt(a)

C22_Witness ==
    /\ executed.op = "update"
    /\ executed.ran
    /\ Len(executed.actions) = 2
    /\ executed.actions[1].priority = executed.actions[2].priority
    /\ executed.active_agents = <<"navigation_agent", "battle_agent">>
    /\ executed.actions[1].agent = "navigation_agent"

\* the last call was an execute_task whose body raised on every attempt and
\* whose every handle_error found a recovery action that succeeded
EveryFailureRecovered ==
    /\ call.op = "execute_task"
    /\ call.outcome = "raise_always"
    /\ call.nruns = config.error_config.max_retries
    /\ call.nruns > 0
    /\ call.cf_before + call.nruns <= config.error_config.max_consecutive_failures
    /\ RecoveryFor(config.error_config.recovery_actions, call.task) # None
    /\ call.fail_at = 0
    /\ _execute_recovery_action(
           RecoveryFor(config.error_config.recovery_actions, call.task), TRUE)

\* C23: when handle_error finds a recovery action for the failed task and the
\* recovery succeeds, consecutive_failures is reset to 0: after an
\* execute_task all of whose failures were recovered the counter is 0.
C23_RecoveryResetsCounter ==
    EveryFailureRecovered => consecutive_failures = 0

\* the first handle_error of the last execute_task ran a recovery action
\* that failed
RecoveryFailed ==
    /\ call.op = "execute_task"
    /\ call.outcome \in {"raise_once", "raise_always"}
    /\ call.cf_before + 1 <= config.error_config.max_consecutive_failures
    /\ RecoveryFor(config.error_config.recovery_actions, call.task) # None
    /\ ~_execute_recovery_action(
           RecoveryFor(config.error_config.recovery_actions, call.task),
           call.fail_at # 1)

\* tasks of the dependency graph remain uncompleted and none of them is ready
Deadlocked ==
    /\ Declared \ completed_tasks # {}
    /\ Ready = << >>

\* C24: execute_task and execute_all_tasks hand every failure back as a
\* value: execute_task returns None for an unknown task name, a task body
\* that fails on every attempt (retries exhausted) and a failing recovery
\* action, and execute_all_tasks returns False when a task failed or the
\* graph is deadlocked.
C24_FailuresAreReturned ==
    /\ (call.op = "execute_task"
            /\ (call.task \notin Declared \/ call.outcome = "raise_always"
                    \/ RecoveryFailed))
           => call.result = None
    /\ (call.op = "execute_all_tasks" /\ (call.failed # None \/ Deadlocked))
           => call.result = "False"

\* C25: arbitration and action dispatch of one tick run under one lock: at
\* most one thread is inside update at a time, and a thread whose agent is
\* acting holds the active-agent slot.
C25_TicksUnderOneLock ==
    /\ Cardinality({ w \in Workers : workers[w].pc # "idle" }) <= 1
    /\ \A w \in Workers :
           workers[w].pc = "dispatch" => workers[w].agent = active_agent

\* the last n elements of a sequence
LastN(seq, n) == SubSeq(seq, Len(seq) - Min(n, Len(seq)) + 1, Len(seq))

\* C26: state_history holds at most max_history states, they are the most
\* recently observed states in the order observed, and current_state is the
\* state observed last.
C26_HistoryIsRecentWindow ==
    /\ Len(state_manager.state_history) <= MaxHistory
    /\ state_manager.state_history = LastN(emulator.observed, MaxHistory)
    /\ state_manager.current_state =
           IF emulator.observed = << >> THEN NoState
           ELSE emulator.observed[Len(emulator.observed)]

C26_Witness ==
    /\ Len(emulator.observed) > MaxHistory
    /\ Len(state_manager.state_history) = MaxHistory
    /\ emulator.observed[1] # emulator.observed[Len(emulator.observed)]
    /\ state_manager.state_history[1] # state_manager.state_history[MaxHistory]

\* C27: when get_game_state raises, GameStateManager.update returns to its
\* caller without raising.
C27_EmulatorFailureSkipsTick ==
    (emulator.op = "update" /\ emulator.failed) => emulator.outcome = "returned"

\* C29: when tasks of the graph remain uncompleted and none is ready (a
\* dependency cycle, a dependency on an undeclared task), execute_all_tasks
\* returns False.
C29_DeadlockReturnsFalse ==
    (call.op = "execute_all_tasks" /\ Deadlocked) => call.result = "False"

RECURSIVE RecordedErrors(_)
RecordedErrors(names) ==
    IF names = {} THEN 0
    ELSE LET t == CHOOSE n \in names : TRUE
         IN  task_errors[t] + RecordedErrors(names \ {t})

\* C30: a handle_error that finds consecutive_failures above
\* max_consecutive_failures records no error (the errors on record never
\* number more than the limit), the execute_task it belongs to stops at that
\* failure and returns None, and consecutive_failures goes back to 0 only in
\* a call in which a task body succeeded.
C30_AbortAfterTooManyFailures ==
    /\ RecordedErrors(TaskNames)
           = Min(consecutive_failures, config.error_config.max_consecutive_failures)
    /\ (/\ call.op = "execute_task"
        /\ call.outcome \in {"raise_once", "raise_always"}
        /\ consecutive_failures > config.error_config.max_consecutive_failures)
           => /\ call.result = None
              /\ consecutive_failures
                     = Max(call.cf_before,
                           config.error_config.max_consecutive_failures) + 1
              /\ call.nruns = consecutive_failures - call.cf_before
    /\ (call.cf_before > 0 /\ consecutive_failures = 0)
           => /\ call.op \in {"execute_task", "execute_all_tasks"}
              /\ \E t \in call.ran : t \in completed_tasks

\* C30 witness: an execute_task cut short by the failure limit, with retries
\* left and a recovery action that was not run
C30_Witness ==
    /\ call.op = "execute_task"
    /\ call.outcome = "raise_always"
    /\ consecutive_failures > config.error_config.max_consecutive_failures
    /\ call.nruns < config.error_config.max_retries
    /\ call.nruns < RecoveryStop
    /\ RecoveryFor(config.error_config.recovery_actions, call.task) # None

\* the number of cardinal steps of a shortest route from the cells of S to
\* goal through walkable cells, S being n steps from the start (breadth-first)
RECURSIVE BfsDistance(_, _, _, _)
BfsDistance(collision_map, S, goal, n) ==
    IF goal \in S THEN n
    ELSE LET more == { c \in collision_map :
                           \E a \in S : Step(a, c) \in {<<1, 0>>, <<0, 1>>} }
         IN  IF more \subseteq S THEN -1
             ELSE BfsDistance(collision_map, S \cup more, goal, n + 1)

\* C28: for in-bounds start and goal joined by a walkable four-connected
\* route, the path returned has the minimum possible number of steps, the
\* breadth-first distance from start to goal.
C28_ShortestPath ==
    (/\ Searched
     /\ InBounds
     /\ WalkableRoute(search.collision_map, search.start, search.goal))
        => Len(search.path) - 1
               = BfsDistance(search.collision_map, {search.start}, search.goal, 0)


C36_NoneMeansNotCompleted ==
    [][(call'.op = "execute_task" /\ call'.result = None)
           => completed_tasks' = completed_tasks]_vars

\* the last call was an execute_task in which an attempt ran to its end
\* without raising (line 394 returned)
BodySucceeded(c) ==
    /\ c.op = "execute_task"
    /\ c.nruns > 0
    /\ \/ c.outcome \in {"value", "none"}
       \/ c.outcome = "raise_once" /\ c.nruns >= 2

\* C37: right after an execute_task whose task body succeeded,
\* consecutive_failures is 0 and no task has a recorded error; an
\* execute_task in which every attempt failed removes no recorded error.
C37_SuccessClearsFailureKeeps ==
    [][call'.op = "execute_task" =>
           IF BodySucceeded(call')
           THEN /\ consecutive_failures' = 0
                /\ \A t \in TaskNames : task_errors'[t] = 0
           ELSE \A t \in TaskNames : task_errors'[t] >= task_errors[t]]_vars

\* C37 witness: execute_task has succeeded after failures were counted
C37_Witness ==
    /\ BodySucceeded(call)
    /\ call.result = "value"
    /\ call.cf_before > 0
    /\ consecutive_failures = 0

(***************************************************************************)
(* Properties of the target and request queues (specification SpecQueues)  *)
(***************************************************************************)
\* non-increasing priority, entries of equal priority in the order they were
\* added
PriorityOrdered(queue) ==
    \A i, j \in 1..Len(queue) :
        i < j => \/ queue[i].priority > queue[j].priority
                 \/ /\ queue[i].priority = queue[j].priority
                    /\ queue[i].name < queue[j].name

\* an entry becomes current only when none is, and it is the head, which
\* leaves the queue
HeadBecomesCurrent(current, queue, current_after, queue_after) ==
    (current_after # current /\ current_after # NoEntry)
        => /\ current = NoEntry
           /\ queue # << >>
           /\ current_after = Head(queue)
           /\ queue_after = Tail(queue)

\* while an entry stays current no entry leaves the queue
NoDequeueWhileCurrent(current, queue, current_after, queue_after) ==
    (current # NoEntry /\ current_after # NoEntry)
        => SeqToSet(queue) \subseteq SeqToSet(queue_after)

\* C38: after any sequence of add, dequeue and clear operations both queues
\* are in non-increasing priority order with equal priorities in insertion
\* order; the entry that becomes current is the head, and none is dequeued
\* while another is current.
C38_QueuesPriorityOrdered ==
    /\ [](/\ PriorityOrdered(navigation.target_queue)
          /\ PriorityOrdered(menu.request_queue))
    /\ [][/\ HeadBecomesCurrent(navigation.current_target,
                                navigation.target_queue,
                                navigation'.current_target,
                                navigation'.target_queue)
          /\ NoDequeueWhileCurrent(navigation.current_target,
                                   navigation.target_queue,
                                   navigation'.current_target,
                                   navigation'.target_queue)
          /\ HeadBecomesCurrent(menu.current_request, menu.request_queue,
                                menu'.current_request, menu'.request_queue)
          /\ NoDequeueWhileCurrent(menu.current_request, menu.request_queue,
                                   menu'.current_request,
                                   menu'.request_queue)]_vars

\* C38 witness: a target is current while the queue holds, ahead of a target
\* added earlier, one added later with the current target's priority; a
\* request has become current too
C38_Witness ==
    /\ navigation.current_target # NoEntry
    /\ Len(navigation.target_queue) = 2
    /\ navigation.target_queue[1].name > navigation.target_queue[2].name
    /\ navigation.current_target.priority = navigation.target_queue[1].priority
    /\ menu.current_request # NoEntry

(***************************************************************************)
(* Order of expansion (specification SpecPathfinder)                       *)
(***************************************************************************)
\* the cells pushed by the passes of lines 103-137 for `current`, in the
\* order of the pushes: the neighbours that are in the heap after the passes
\* and were not before
Pushed(before, after, current) ==
    SelectSeq([i \in 1..Len(_get_neighbors) |->
                   <<current[1] + _get_neighbors[i][1],
                     current[2] + _get_neighbors[i][2]>>],
              LAMBDA c : c \in SeqToSet(after) \ SeqToSet(before))

\* the while loop of lines 92-140 followed with the open nodes listed in
\* order of insertion: TRUE when every node popped is the earliest inserted
\* of the open nodes that have its f cost
RECURSIVE PopsEarliestOfTies(_, _, _, _)
PopsEarliestOfTies(collision_map, goal, ss, inserted) ==
    IF ss.open_set = << >> THEN TRUE
    ELSE LET popped == heappop(ss.g, goal, ss.open_set)
             current == popped.item
             ties == SelectSeq(inserted,
                         LAMBDA c : f_cost(ss.g, goal, c)
                                        = f_cost(ss.g, goal, current))
             after == RelaxAll(collision_map, goal,
                               [ss EXCEPT !.open_set = popped.heap,
                                          !.closed_set = @ \cup {current}],
                               current, _get_neighbors, 1)
         IN  /\ ties[1] = current
             /\ \/ current = goal
                \/ PopsEarliestOfTies(collision_map, goal, after,
                       SelectSeq(inserted, LAMBDA c : c # current)
                           \o Pushed(popped.heap, after.open_set, current))

\* C32: among open nodes of equal f cost find_path expands the one inserted
\* first (and a search is a function of mask, start and goal).
C32_TiesInInsertionOrder ==
    (Searched /\ InBounds)
        => PopsEarliestOfTies(search.collision_map, search.goal,
               [open_set |-> <<search.start>>, closed_set |-> {},
                g |-> [c \in {search.start} |-> 0],
                parent |-> [c \in {} |-> c]],
               <<search.start>>)


\* C34: every node of a path returned by find_path lies within the map and,
\* except possibly the first node (the start), is a walkable cell.
C34_PathOnWalkableCells ==
    Searched =>
        \A i \in 1..Len(search.path) :
            /\ _is_valid_position(search.path[i])
            /\ i > 1 => search.path[i] \in search.collision_map

\* C34 witness: a path of several nodes returned from a start that is not
\* walkable
C34_Witness ==
    /\ Searched
    /\ search.start \notin search.collision_map
    /\ Len(search.path) > 2

(***************************************************************************)
(* Termination of the search (specification SpecSearch)                    *)
(***************************************************************************)
\* the closed cells that a pass of the loop puts back into the open set
Reopened ==
    { c \in run.ss.closed_set :
          /\ c \notin SeqToSet(run.ss.open_set)
          /\ c \in SeqToSet(run'.ss.open_set) }

\* C33: a closed node is reopened only when reached with a strictly lower g
\* cost, and every find_path call that has entered its loop returns.
C33_SearchTerminates ==
    /\ [][\A c \in Reopened : run'.ss.g[c] < run.ss.g[c]]_vars
    /\ (run.pc = "while") ~> (run.pc = "returned")

\* C33 witness: a pass of the loop has put a closed node back into the open
\* set
C33_Witness ==
    /\ run.pc = "while"
    /\ \E c \in run.ss.closed_set : c \in SeqToSet(run.ss.open_set)

(***************************************************************************)
(* Properties of the command queue (specification SpecCommands)            *)
(***************************************************************************)
\* the commands a call has popped so far, in the order it popped them
Attempted == [i \in 1..Len(command_queue.attempts) |->
                  command_queue.attempts[i].command]

\* C39: process_commands attempts the commands in the order they were added,
\* goes on after a command that raises, and returns with the queue empty,
\* having attempted each command the queue held at the call exactly once.
C39_ProcessesAllInOrder ==
    /\ [](command_queue.pc = "while" =>
              Attempted \o command_queue.commands = command_queue.queued)
    /\ [](command_queue.pc = "done" =>
              /\ command_queue.commands = << >>
              /\ Attempted = command_queue.queued)
    /\ [](\A i, j \in 1..Len(command_queue.commands) :
              i < j => command_queue.commands[i].name
                           < command_queue.commands[j].name)
    /\ (command_queue.pc = "while") ~> (command_queue.pc = "done")

\* C39 witness: a call has returned after three commands, added one by one
\* and two at once, the second of which raised
C39_Witness ==
    /\ command_queue.pc = "done"
    /\ Len(command_queue.queued) = 3
    /\ command_queue.attempts[1].outcome = "executed"
    /\ command_queue.attempts[2].outcome = "logged"
    /\ command_queue.attempts[3].outcome = "executed"
    /\ command_queue.attempts[1].command.command_type = "wait"
    /\ command_queue.attempts[2].command.command_type = "button_press"
    /\ command_queue.attempts[3].command.command_type = "other"

====
